---- MODULE Spec2Model ----
(***************************************************************************)
(* The personal-finance backend (lambdas/ over lambdas/shared/database.py):*)
(* transaction synchronisation (accounts/sync_transactions.py), the        *)
(* account, goal and plan handlers, and the analytics computations.        *)
(*                                                                         *)
(* The document store tables are functions from a key <<pk, sk>> to an     *)
(* item (a record); a key outside the function's domain is an item that    *)
(* does not exist.  One sync request is a sequence of steps, one per call  *)
(* to the store or to the aggregator, so that a failure between two calls  *)
(* can be observed.  The aggregator is the environment: a remote ledger    *)
(* that grows by a change log, read page by page through a cursor.         *)
(*                                                                         *)
(* Of the transaction item only the fields that identify it and carry the  *)
(* amount are kept; created_at / synced_at and the category, merchant and  *)
(* location fields are left out, so two stored transaction sets are equal  *)
(* here when they agree on keys, ids, owner, amount, debit flag and date.  *)
(*                                                                         *)
(* The account, goal and plan handlers are steps over the same tables, a   *)
(* step per call to the store where calls of different requests can        *)
(* interleave.  The analytics computations are operators on the            *)
(* transactions, budget or goal a request collected, applied once to each  *)
(* input of a bounded set.                                                 *)
(***************************************************************************)
EXTENDS Integers, Sequences, FiniteSets, TLC

VARIABLES
    accounts,   \* the accounts table
    txns,       \* the transactions table
    log,        \* the aggregator's change log of the remote ledger
    stub,       \* a canned aggregator response (replay harness), or off
    clock,      \* the time of the latest request, in ticks
    inv,        \* per request slot: the handler's local state
    hist,       \* history: the last finished incremental sync, with the transactions
                \* table it left (a success) or found before it ran (a failure)
    clean,      \* history: every finished sync so far was incremental and succeeded
    goals,      \* the goals table
    plans,      \* the plans table
    uuids,      \* how many ids the account, goal and plan repositories have generated
    req,        \* per request slot: the local state of a handler other than sync
    serial,     \* history: no two of these requests have overlapped so far
    ana         \* the analytics computation applied: its name, input and output

appVars == <<goals, plans, uuids, req, serial, ana>>
syncVars == <<log, stub, inv, hist, clean>>
vars == <<accounts, txns, log, stub, clock, inv, hist, clean, goals, plans, uuids, req, serial, ana>>

----------------------------------------------------------------------------
(* Bounds of the model *)

MaxLog == 2       \* changes of the remote ledger
PageLimit == 1    \* changes the aggregator puts in one page
MaxClock == 2     \* requests
MaxUuid == 4      \* ids generate_id can hand out
MaxStub == 1      \* records in the added list of a canned response

(* Program constants *)

MaxDays == 730
DefaultDays == 30
DefaultCount == 100
MaxCount == 500

----------------------------------------------------------------------------
(* Values *)

None == "None"          \* Python's None
Absent == "Absent"      \* a key a dict does not have

Min(a, b) == IF a < b THEN a ELSE b
Abs(a) == IF a < 0 THEN 0 - a ELSE a

\* dict.get(key): None for a key the dict lacks
Get(v) == IF v = Absent THEN None ELSE v

\* dict.get(key, default) on an item
GetOr(item, key, default) == IF key \in DOMAIN item THEN item[key] ELSE default

Procs == {1, 2}
SeqProcs == {1}

UserId == "u1"
AccountId == "acc1"
RequestedAccountIds == {"acc1", "acc2"}
LinkedPlaidAccount == "pa1"
AccessToken == "tok1"

TxnOrder == <<"t1", "t2", "t3">>
TxnIds == {TxnOrder[i] : i \in 1..Len(TxnOrder)}
Amounts == {0 - 5, 0, 5}

\* The remote ledger's fixed facts about a transaction: its account and date.
\* Today is a day number far enough from 0 for every start date to stay positive.
Today == MaxDays + MaxDays
RemoteAccountOf(t) == IF t = "t3" THEN "pa2" ELSE "pa1"
RemoteDateOf(t) == IF t = "t2" THEN Today - (MaxDays + DefaultDays) ELSE Today - 1

PlaidTxn(t, amt) ==
    [transaction_id |-> t, account_id |-> RemoteAccountOf(t),
     amount |-> amt, date |-> RemoteDateOf(t)]

get_timestamp == "T" \o ToString(clock)

\* A handler other than sync, between requests: nothing read, nothing answered.
NoResponse == [status |-> 0, code |-> None, message |-> None]
IdleReq ==
    [pc |-> "idle", op |-> None, user_id |-> None, id |-> None, body |-> None,
     item |-> None, list |-> << >>, i |-> 1, updates |-> None,
     response |-> NoResponse, out |-> None,
     \* history of the request, not read by the handler
     held |-> {}, began |-> 0]

\* The analytics harness at rest.
AnaNone == [fn |-> None, input |-> None, out |-> None]

\* The part of the state the sync model does not use, at rest.
AppIdle ==
    /\ goals = << >>
    /\ plans = << >>
    /\ uuids = 0
    /\ req = [p \in Procs |-> IdleReq]
    /\ serial = TRUE
    /\ ana = AnaNone

----------------------------------------------------------------------------
(* shared/database.py: BaseRepository over a table value *)

NoItem == [pk |-> None, sk |-> None]

Key(pk, sk) == <<pk, sk>>

get_by_id(table, pk, sk) ==
    IF Key(pk, sk) \in DOMAIN table THEN table[Key(pk, sk)] ELSE NoItem

put(table, item) ==
    [k \in DOMAIN table \cup {Key(item.pk, item.sk)} |->
        IF k = Key(item.pk, item.sk) THEN item ELSE table[k]]

\* update_item with a SET expression: writes the named attributes and no other,
\* and creates the item when the key does not exist.
update(table, pk, sk, updates) ==
    LET base == IF Key(pk, sk) \in DOMAIN table
                THEN table[Key(pk, sk)] ELSE [pk |-> pk, sk |-> sk]
    IN  [k \in DOMAIN table \cup {Key(pk, sk)} |->
            IF k = Key(pk, sk) THEN updates @@ base ELSE table[k]]

\* Mutant: the delete addresses a partition that holds no transaction.
delete_WrongPartition(table, pk, sk) == table

\* delete_item: removes the key; a key that is not there is left not there.
delete(table, pk, sk) ==
    [k \in DOMAIN table \ {Key(pk, sk)} |-> table[k]]

\* Mutant: the account is found by its id in whatever partition holds it.
get_account_AnyOwner(user_id, account_id) ==
    LET ks == {k \in DOMAIN accounts : k[2] = "ACCOUNT#" \o account_id}
    IN  IF ks = {} THEN NoItem ELSE accounts[CHOOSE k \in ks : TRUE]

get_account(user_id, account_id) ==
    get_by_id(accounts, "USER#" \o user_id, "ACCOUNT#" \o account_id)

\* uuid4: an id no stored item uses yet, as a key suffix or as its id.
Uuid(n) == "uuid" \o ToString(n)
UuidUsed(table, u) ==
    \E k \in DOMAIN table : k[2] = "TXN#" \o u \/ table[k].id = u
FreeUuids(table) == {n \in 1..MaxUuid : ~UuidUsed(table, Uuid(n))}
MinOf(S) == CHOOSE n \in S : \A m \in S : n <= m
\* The j-th fresh id (j = 1, 2) of one mapping: two calls give two ids.
generate_id(table, j) ==
    LET free == FreeUuids(table)
    IN  IF j = 1 THEN Uuid(MinOf(free)) ELSE Uuid(MinOf(free \ {MinOf(free)}))

----------------------------------------------------------------------------
(* accounts/sync_transactions.py: map_plaid_transaction *)

\* Mutant: a zero amount counts as a debit.
map_plaid_transaction_DebitFromZero(plaid_txn, user_id, account_id, table) ==
    [pk |-> "ACCOUNT#" \o account_id,
     sk |-> "TXN#" \o (IF plaid_txn.transaction_id = Absent
                       THEN generate_id(table, 1) ELSE plaid_txn.transaction_id),
     id |-> IF plaid_txn.transaction_id = Absent
            THEN generate_id(table, 2) ELSE plaid_txn.transaction_id,
     user_id |-> user_id,
     account_id |-> account_id,
     plaid_transaction_id |-> Get(plaid_txn.transaction_id),
     amount |-> Abs(plaid_txn.amount),
     is_debit |-> plaid_txn.amount >= 0,
     date |-> plaid_txn.date]

\* Mutant: the sort key is always a generated id, never the transaction id.
map_plaid_transaction_FreshKey(plaid_txn, user_id, account_id, table) ==
    LET free == FreeUuids(table)
        fresh == IF free = {} THEN Uuid(0) ELSE Uuid(MinOf(free))
    IN  [pk |-> "ACCOUNT#" \o account_id,
         sk |-> "TXN#" \o fresh,
         id |-> fresh,
         user_id |-> user_id,
         account_id |-> account_id,
         plaid_transaction_id |-> Get(plaid_txn.transaction_id),
         amount |-> Abs(plaid_txn.amount),
         is_debit |-> plaid_txn.amount > 0,
         date |-> plaid_txn.date]

map_plaid_transaction(plaid_txn, user_id, account_id, table) ==
    [pk |-> "ACCOUNT#" \o account_id,
     sk |-> "TXN#" \o (IF plaid_txn.transaction_id = Absent
                       THEN generate_id(table, 1) ELSE plaid_txn.transaction_id),
     id |-> IF plaid_txn.transaction_id = Absent
            THEN generate_id(table, 2) ELSE plaid_txn.transaction_id,
     user_id |-> user_id,
     account_id |-> account_id,
     plaid_transaction_id |-> Get(plaid_txn.transaction_id),
     amount |-> Abs(plaid_txn.amount),
     is_debit |-> plaid_txn.amount > 0,
     date |-> plaid_txn.date]

\* Whether mapping the record needs ids that the bounded pool still has.
CanMap(plaid_txn, table) ==
    plaid_txn.transaction_id = Absent => Cardinality(FreeUuids(table)) >= 2

----------------------------------------------------------------------------
(* The aggregator *)

RECURSIVE LedgerAt(_)
\* The remote ledger after the first n changes: transaction id -> record.
LedgerAt(n) ==
    IF n = 0 THEN << >>
    ELSE LET prev == LedgerAt(n - 1)
             e == log[n]
             t == e.txn.transaction_id
         IN  IF e.kind = "removed"
             THEN [k \in DOMAIN prev \ {t} |-> prev[k]]
             ELSE [k \in DOMAIN prev \cup {t} |-> IF k = t THEN e.txn ELSE prev[k]]

Ledger == LedgerAt(Len(log))

EverAdded == {log[i].txn.transaction_id : i \in 1..Len(log)}

CursorToken(n) == "c" \o ToString(n)
CursorPos(c) ==
    IF c = None THEN 0 ELSE CHOOSE n \in 0..Len(log) : CursorToken(n) = c

TxnsOf(entries, kind) ==
    LET sel == SelectSeq(entries, LAMBDA e : e.kind = kind)
    IN  [i \in 1..Len(sel) |-> sel[i].txn]

EmptyResp ==
    [added |-> << >>, modified |-> << >>, removed |-> << >>,
     next_cursor |-> None, has_more |-> FALSE]

\* /transactions/sync: the changes after the cursor, at most a page of them.
\* A falsy cursor is left out of the request and the stream starts over.
sync_transactions_from_plaid(access_token, cursor, count) ==
    IF stub.on THEN stub.resp
    ELSE LET pos == CursorPos(cursor)
             n == Min(Min(Min(count, MaxCount), PageLimit), Len(log) - pos)
             page == SubSeq(log, pos + 1, pos + n)
             rem == TxnsOf(page, "removed")
         IN  [added |-> TxnsOf(page, "added"),
              modified |-> TxnsOf(page, "modified"),
              removed |-> [i \in 1..Len(rem) |->
                              [transaction_id |-> rem[i].transaction_id]],
              next_cursor |-> CursorToken(pos + n),
              has_more |-> pos + n < Len(log)]

\* /transactions/get: the ledger's transactions of the named accounts dated
\* within [start_date, end_date].
get_transactions_legacy(access_token, start_date, end_date, account_ids) ==
    LET live == SelectSeq(TxnOrder, LAMBDA t :
                    /\ t \in DOMAIN Ledger
                    /\ Ledger[t].account_id \in account_ids
                    /\ start_date <= Ledger[t].date
                    /\ Ledger[t].date <= end_date)
    IN  [transactions |-> [i \in 1..Len(live) |-> Ledger[live[i]]]]

----------------------------------------------------------------------------
(* accounts/sync_transactions.py: handler *)

Stats0 == [added |-> 0, modified |-> 0, removed |-> 0,
           has_more |-> FALSE, cursor |-> None]

IdleInv ==
    [pc |-> "idle", account_id |-> None, account |-> NoItem,
     use_sync |-> TRUE, days |-> 0, cursor |-> None,
     resp |-> EmptyResp, transactions |-> << >>, i |-> 1,
     stats |-> Stats0, status |-> 0, code |-> None, message |-> None,
     \* history of the request, not read by the handler
     calls |-> 0, faulted |-> FALSE, pre |-> << >>, remoteLen |-> 0,
     malformed |-> FALSE]

HistNone == [outcome |-> "none", resp |-> EmptyResp, table |-> << >>, wrote |-> FALSE]
StubOff == [on |-> FALSE, resp |-> EmptyResp]

\* shared/response.py: the status and the error code of each response
Responded(r, status, code) == [r EXCEPT !.pc = "done", !.status = status, !.code = code]
success(r) == Responded(r, 200, None)
bad_request(r) == Responded(r, 400, "VALIDATION_ERROR")
\* Of the messages only that of line 245 is kept.
not_found(r) == [Responded(r, 404, "NOT_FOUND") EXCEPT !.message = "Account not found"]
internal_error(r) == Responded(r, 500, "INTERNAL_ERROR")
service_unavailable(r) == Responded(r, 503, "SERVICE_UNAVAILABLE")

\* days = min(int(days), 730)
ClampDays(days) == Min(days, MaxDays)

\* Mutant: the account filter is missing.
OfLinkedAccount_Any(plaid_txn, account) == TRUE

\* if plaid_txn.get("account_id") == account.get("plaid_account_id")
OfLinkedAccount(plaid_txn, account) ==
    plaid_txn.account_id = GetOr(account, "plaid_account_id", None)

RECURSIVE NextPos_RemovedBeforeModified(_, _, _)
\* Mutant: the removed list is applied before the modified list.
NextPos_RemovedBeforeModified(resp, ph, i) ==
    IF ph = "update" THEN <<"update", 1>>
    ELSE IF i <= Len(resp[ph]) THEN <<ph, i>>
    ELSE NextPos_RemovedBeforeModified(resp, IF ph = "added" THEN "removed"
                                             ELSE IF ph = "removed" THEN "modified"
                                             ELSE "update", 1)

RECURSIVE NextPos(_, _, _)
\* Where the three for-loops stand once element i of list ph is reached: the
\* next record to process, or the account update after the last one.
NextPos(resp, ph, i) ==
    IF ph = "update" THEN <<"update", 1>>
    ELSE IF i <= Len(resp[ph]) THEN <<ph, i>>
    ELSE NextPos(resp, IF ph = "added" THEN "modified"
                       ELSE IF ph = "modified" THEN "removed" ELSE "update", 1)

At(r, pos) == [r EXCEPT !.pc = pos[1], !.i = pos[2]]

\* Lines 230-265 (and 269, 320-321): the request up to its first outbound call.
\* fault names the dependency that fails in this stretch, if any.
Request(p, account_id, use_sync, days_ok, days, fault) ==
    /\ inv[p].pc = "idle"
    /\ clock < MaxClock
    /\ clock' = clock + 1
    /\ LET account == get_account(UserId, account_id)
           r == [inv[p] EXCEPT !.account_id = account_id, !.pre = txns]
       IN  inv' = [inv EXCEPT ![p] =
             IF fault = "store" THEN internal_error(r)
             ELSE IF account = NoItem THEN not_found(r)
             ELSE IF GetOr(account, "plaid_access_token", None) = None
                  THEN bad_request([r EXCEPT !.account = account])
             ELSE IF fault = "secrets"
                  THEN service_unavailable([r EXCEPT !.account = account])
             \* int(days) raises ValueError at line 261, under the except of 357
             ELSE IF ~days_ok
                  THEN internal_error([r EXCEPT !.account = account,
                                                !.use_sync = use_sync,
                                                !.malformed = TRUE])
             ELSE [r EXCEPT !.account = account,
                            !.use_sync = use_sync,
                            !.days = ClampDays(days),
                            !.cursor = IF use_sync THEN GetOr(account, "plaid_sync_cursor", None) ELSE None,
                            !.pc = IF use_sync THEN "sync_call" ELSE "legacy_call"]]
    /\ UNCHANGED <<accounts, txns, log, stub, hist, clean, appVars>>

\* Lines 272-276: the one delta call of the request.
SyncCall(p) ==
    /\ inv[p].pc = "sync_call"
    /\ LET r == inv[p]
           resp == sync_transactions_from_plaid(r.account.plaid_access_token,
                                                r.cursor, DefaultCount)
       IN  inv' = [inv EXCEPT ![p] =
                      At([r EXCEPT !.resp = resp, !.calls = r.calls + 1,
                                   !.remoteLen = Len(log)],
                         NextPos(resp, "added", 1))]
    /\ UNCHANGED <<accounts, txns, log, stub, clock, hist, clean, appVars>>

\* Lines 279-283: one record of added.
ProcessAdded(p) ==
    /\ inv[p].pc = "added"
    /\ LET r == inv[p]
           plaid_txn == r.resp.added[r.i]
           next == NextPos(r.resp, "added", r.i + 1)
       IN  IF OfLinkedAccount(plaid_txn, r.account)
           THEN /\ CanMap(plaid_txn, txns)
                /\ txns' = put(txns, map_plaid_transaction(plaid_txn, UserId,
                                                           r.account_id, txns))
                /\ inv' = [inv EXCEPT ![p] =
                              At([r EXCEPT !.stats.added = r.stats.added + 1], next)]
           ELSE /\ txns' = txns
                /\ inv' = [inv EXCEPT ![p] = At(r, next)]
    /\ UNCHANGED <<accounts, log, stub, clock, hist, clean, appVars>>

\* Lines 286-290: one record of modified.
ProcessModified(p) ==
    /\ inv[p].pc = "modified"
    /\ LET r == inv[p]
           plaid_txn == r.resp.modified[r.i]
           next == NextPos(r.resp, "modified", r.i + 1)
       IN  IF OfLinkedAccount(plaid_txn, r.account)
           THEN /\ CanMap(plaid_txn, txns)
                /\ txns' = put(txns, map_plaid_transaction(plaid_txn, UserId,
                                                           r.account_id, txns))
                /\ inv' = [inv EXCEPT ![p] =
                              At([r EXCEPT !.stats.modified = r.stats.modified + 1], next)]
           ELSE /\ txns' = txns
                /\ inv' = [inv EXCEPT ![p] = At(r, next)]
    /\ UNCHANGED <<accounts, log, stub, clock, hist, clean, appVars>>

\* Mutant: a delete of a key that is not stored raises, as a conditional
\* delete would.
ProcessRemoved_MissingRaises(p) ==
    /\ inv[p].pc = "removed"
    /\ LET r == inv[p]
           txn_id == Get(r.resp.removed[r.i].transaction_id)
           next == NextPos(r.resp, "removed", r.i + 1)
       IN  IF txn_id # None
           THEN IF Key("ACCOUNT#" \o r.account_id, "TXN#" \o txn_id) \in DOMAIN txns
                THEN /\ txns' = delete(txns, "ACCOUNT#" \o r.account_id, "TXN#" \o txn_id)
                     /\ inv' = [inv EXCEPT ![p] =
                                   At([r EXCEPT !.stats.removed = r.stats.removed + 1], next)]
                ELSE /\ txns' = txns
                     /\ inv' = [inv EXCEPT ![p] = service_unavailable(r)]
           ELSE /\ txns' = txns
                /\ inv' = [inv EXCEPT ![p] = At(r, next)]
    /\ UNCHANGED <<accounts, log, stub, clock, hist, clean, appVars>>

\* Lines 293-297: one record of removed.
ProcessRemoved(p) ==
    /\ inv[p].pc = "removed"
    /\ LET r == inv[p]
           txn_id == Get(r.resp.removed[r.i].transaction_id)
           next == NextPos(r.resp, "removed", r.i + 1)
       IN  IF txn_id # None
           THEN /\ txns' = delete(txns, "ACCOUNT#" \o r.account_id, "TXN#" \o txn_id)
                /\ inv' = [inv EXCEPT ![p] =
                              At([r EXCEPT !.stats.removed = r.stats.removed + 1], next)]
           ELSE /\ txns' = txns
                /\ inv' = [inv EXCEPT ![p] = At(r, next)]
    /\ UNCHANGED <<accounts, log, stub, clock, hist, clean, appVars>>

\* Mutant: the cursor is kept back while the aggregator has more pages.
SaveCursor_WhenDrained(p) ==
    /\ inv[p].pc = "update"
    /\ LET r == inv[p]
           new_cursor == r.resp.next_cursor
       IN  /\ accounts' = IF r.resp.has_more
                          THEN update(accounts, "USER#" \o UserId, "ACCOUNT#" \o r.account_id,
                                      [last_synced |-> get_timestamp])
                          ELSE update(accounts, "USER#" \o UserId, "ACCOUNT#" \o r.account_id,
                                      [plaid_sync_cursor |-> new_cursor,
                                       last_synced |-> get_timestamp])
           /\ inv' = [inv EXCEPT ![p] =
                         success([r EXCEPT !.stats.has_more = r.resp.has_more,
                                           !.stats.cursor = new_cursor])]
    /\ UNCHANGED <<txns, log, stub, clock, hist, clean, appVars>>

\* Lines 300-312 and 348-355: the cursor and the timestamp go to the account
\* item, and the request answers with the counts.
SaveCursor(p) ==
    /\ inv[p].pc = "update"
    /\ LET r == inv[p]
           new_cursor == r.resp.next_cursor
       IN  /\ accounts' = update(accounts, "USER#" \o UserId, "ACCOUNT#" \o r.account_id,
                                 [plaid_sync_cursor |-> new_cursor,
                                  last_synced |-> get_timestamp])
           /\ inv' = [inv EXCEPT ![p] =
                         success([r EXCEPT !.stats.has_more = r.resp.has_more,
                                           !.stats.cursor = new_cursor])]
    /\ UNCHANGED <<txns, log, stub, clock, hist, clean, appVars>>

\* Whether the step the request stands at calls the aggregator or the store.
CallsOut(r) ==
    \/ r.pc \in {"sync_call", "update"}
    \/ r.pc = "added" /\ OfLinkedAccount(r.resp.added[r.i], r.account)
    \/ r.pc = "modified" /\ OfLinkedAccount(r.resp.modified[r.i], r.account)
    \/ r.pc = "removed" /\ Get(r.resp.removed[r.i].transaction_id) # None

\* Mutant: the cursor is saved on the way out, as in a finally block.
SyncFault_SavesCursor(p) ==
    /\ CallsOut(inv[p])
    /\ accounts' = IF inv[p].calls = 0 THEN accounts
                   ELSE update(accounts, "USER#" \o UserId, "ACCOUNT#" \o inv[p].account_id,
                               [plaid_sync_cursor |-> inv[p].resp.next_cursor])
    /\ inv' = [inv EXCEPT ![p] = service_unavailable([inv[p] EXCEPT !.faulted = TRUE])]
    /\ UNCHANGED <<txns, log, stub, clock, hist, clean, appVars>>

\* Mutant: the failure undoes the transaction writes of the request.
SyncFault_RollsBack(p) ==
    /\ CallsOut(inv[p])
    /\ txns' = inv[p].pre
    /\ inv' = [inv EXCEPT ![p] = service_unavailable([inv[p] EXCEPT !.faulted = TRUE])]
    /\ UNCHANGED <<accounts, log, stub, clock, hist, clean, appVars>>

\* Lines 314-316: any exception of the incremental branch; the failed call
\* has written nothing.
SyncFault(p) ==
    /\ CallsOut(inv[p])
    /\ inv' = [inv EXCEPT ![p] = service_unavailable([inv[p] EXCEPT !.faulted = TRUE])]
    /\ UNCHANGED <<accounts, txns, log, stub, clock, hist, clean, appVars>>

\* Lines 320-330: the date window and the one full-range call.
LegacyCall(p) ==
    /\ inv[p].pc = "legacy_call"
    /\ LET r == inv[p]
           end_date == Today
           start_date == Today - r.days
           got == get_transactions_legacy(r.account.plaid_access_token,
                                          start_date, end_date,
                                          {r.account.plaid_account_id})
       IN  inv' = [inv EXCEPT ![p] =
                      [r EXCEPT !.transactions = got.transactions, !.i = 1,
                                !.pc = IF Len(got.transactions) = 0
                                       THEN "legacy_update" ELSE "legacy_put"]]
    /\ UNCHANGED <<accounts, txns, log, stub, clock, hist, clean, appVars>>

\* Lines 332-335: one returned record.
LegacyPut(p) ==
    /\ inv[p].pc = "legacy_put"
    /\ LET r == inv[p]
           plaid_txn == r.transactions[r.i]
       IN  /\ CanMap(plaid_txn, txns)
           /\ txns' = put(txns, map_plaid_transaction(plaid_txn, UserId,
                                                      r.account_id, txns))
           /\ inv' = [inv EXCEPT ![p] =
                         [r EXCEPT !.stats.added = r.stats.added + 1,
                                   !.i = r.i + 1,
                                   !.pc = IF r.i + 1 > Len(r.transactions)
                                          THEN "legacy_update" ELSE "legacy_put"]]
    /\ UNCHANGED <<accounts, log, stub, clock, hist, clean, appVars>>

\* Mutant: the update also clears the cursor.
LegacyUpdate_ResetsCursor(p) ==
    /\ inv[p].pc = "legacy_update"
    /\ accounts' = update(accounts, "USER#" \o UserId, "ACCOUNT#" \o inv[p].account_id,
                          [plaid_sync_cursor |-> None, last_synced |-> get_timestamp])
    /\ inv' = [inv EXCEPT ![p] = success(inv[p])]
    /\ UNCHANGED <<txns, log, stub, clock, hist, clean, appVars>>

\* Lines 337-342 and 348-355.
LegacyUpdate(p) ==
    /\ inv[p].pc = "legacy_update"
    /\ accounts' = update(accounts, "USER#" \o UserId, "ACCOUNT#" \o inv[p].account_id,
                          [last_synced |-> get_timestamp])
    /\ inv' = [inv EXCEPT ![p] = success(inv[p])]
    /\ UNCHANGED <<txns, log, stub, clock, hist, clean, appVars>>

\* Lines 344-346: any exception of the legacy branch.
LegacyFault(p) ==
    /\ inv[p].pc \in {"legacy_call", "legacy_put", "legacy_update"}
    /\ inv' = [inv EXCEPT ![p] = service_unavailable([inv[p] EXCEPT !.faulted = TRUE])]
    /\ UNCHANGED <<accounts, txns, log, stub, clock, hist, clean, appVars>>

\* The response leaves; the slot is free for the next request.  The history
\* variables remember what the finished request was.
Return(p) ==
    /\ inv[p].pc = "done"
    /\ LET r == inv[p]
       IN  /\ hist' = IF ~r.use_sync THEN HistNone
                      ELSE IF r.calls = 0 THEN hist
                      ELSE IF r.status = 200
                           THEN [outcome |-> "ok", resp |-> r.resp, table |-> txns,
                                 wrote |-> txns # r.pre]
                      ELSE [outcome |-> "failed", resp |-> r.resp,
                            table |-> IF hist.outcome = "failed" /\ hist.resp = r.resp
                                      THEN hist.table ELSE r.pre,
                            wrote |-> txns # r.pre]
           /\ clean' = (clean /\ r.use_sync /\ (r.calls = 0 \/ r.status = 200))
    /\ inv' = [inv EXCEPT ![p] = IdleInv]
    /\ UNCHANGED <<accounts, txns, log, stub, clock, appVars>>

----------------------------------------------------------------------------
(* The remote ledger changes.  A request reads the ledger in one call, so
   with requests one after another a change while a request runs is the same
   as one just before the request or just after it, and LedgerChange takes
   the changes between requests. *)

Quiet == \A p \in Procs : inv[p].pc = "idle"

LedgerAdd(t, amt) ==
    /\ ~stub.on
    /\ Len(log) < MaxLog
    /\ t \notin EverAdded
    /\ log' = Append(log, [kind |-> "added", txn |-> PlaidTxn(t, amt)])
    /\ UNCHANGED <<accounts, txns, stub, clock, inv, hist, clean, appVars>>

LedgerModify(t, amt) ==
    /\ ~stub.on
    /\ Len(log) < MaxLog
    /\ t \in DOMAIN Ledger
    /\ Ledger[t].amount # amt
    /\ log' = Append(log, [kind |-> "modified", txn |-> PlaidTxn(t, amt)])
    /\ UNCHANGED <<accounts, txns, stub, clock, inv, hist, clean, appVars>>

LedgerRemove(t) ==
    /\ ~stub.on
    /\ Len(log) < MaxLog
    /\ t \in DOMAIN Ledger
    /\ log' = Append(log, [kind |-> "removed", txn |-> Ledger[t]])
    /\ UNCHANGED <<accounts, txns, stub, clock, inv, hist, clean, appVars>>

----------------------------------------------------------------------------
(* The system: requests of one user, one after another *)

\* link_account.py 155-171 and database.py 191-203: a linked account that has
\* not been synced has no cursor; an account without a token is a manual one.
AccountItem(token) ==
    [pk |-> "USER#" \o UserId, sk |-> "ACCOUNT#" \o AccountId,
     id |-> AccountId, user_id |-> UserId,
     plaid_account_id |-> LinkedPlaidAccount,
     plaid_access_token |-> token,
     plaid_sync_cursor |-> None,
     last_synced |-> None]

Init ==
    /\ \E token \in {AccessToken, None} :
          accounts = (Key("USER#" \o UserId, "ACCOUNT#" \o AccountId) :> AccountItem(token))
    /\ txns = << >>
    /\ log = << >>
    /\ stub = StubOff
    /\ clock = 0
    /\ inv = [p \in Procs |-> IdleInv]
    /\ hist = HistNone
    /\ clean = TRUE
    /\ AppIdle

DaysInputs == {0 - 1, 0, 1, MaxDays + 1}
Faults == {"none", "store", "secrets"}

SyncRequest(p) ==
    \E account_id \in RequestedAccountIds, days_ok \in BOOLEAN, fault \in Faults :
        Request(p, account_id, TRUE, days_ok, DefaultDays, fault)

LegacyRequest(p) ==
    \E days \in DaysInputs, days_ok \in BOOLEAN, fault \in Faults :
        Request(p, AccountId, FALSE, days_ok, days, fault)

LedgerChange ==
    /\ Quiet
    /\ \E t \in TxnIds :
          \/ \E amt \in Amounts : LedgerAdd(t, amt)
          \/ \E amt \in Amounts : LedgerModify(t, amt)
          \/ LedgerRemove(t)

Next ==
    \/ \E p \in SeqProcs :
          \/ SyncRequest(p)
          \/ LegacyRequest(p)
          \/ SyncCall(p)
          \/ ProcessAdded(p)
          \/ ProcessModified(p)
          \/ ProcessRemoved(p)
          \/ SaveCursor(p)
          \/ SyncFault(p)
          \/ LegacyCall(p)
          \/ LegacyPut(p)
          \/ LegacyUpdate(p)
          \/ LegacyFault(p)
          \/ Return(p)
    \/ LedgerChange

Spec == Init /\ [][Next]_vars

----------------------------------------------------------------------------
(* The replay harness: the aggregator answers every delta call with the same
   response, whatever the cursor.  The response is any of the shapes the
   handler accepts, records without a transaction id included. *)

StubAccounts == {"pa1", "pa2"}
StubAmounts == {0 - 5, 5}
StubTxns ==
    [transaction_id : {"t1", Absent}, account_id : StubAccounts,
     amount : StubAmounts, date : {Today - 1}]
StubRemoved == [transaction_id : {"t1", Absent}]

SeqsUpTo(S, n) == UNION {[1..m -> S] : m \in 0..n}

StubResponses ==
    [added : SeqsUpTo(StubTxns, MaxStub),
     modified : SeqsUpTo(StubTxns, 1),
     removed : SeqsUpTo(StubRemoved, 1),
     next_cursor : {CursorToken(1)},
     has_more : {FALSE}]

InitReplay ==
    /\ accounts = (Key("USER#" \o UserId, "ACCOUNT#" \o AccountId) :> AccountItem(AccessToken))
    /\ txns = << >>
    /\ log = << >>
    /\ \E resp \in StubResponses : stub = [on |-> TRUE, resp |-> resp]
    /\ clock = 0
    /\ inv = [p \in Procs |-> IdleInv]
    /\ hist = HistNone
    /\ clean = TRUE
    /\ AppIdle

NextReplay ==
    \E p \in SeqProcs :
        \/ SyncRequest(p)
        \/ SyncCall(p)
        \/ ProcessAdded(p)
        \/ ProcessModified(p)
        \/ ProcessRemoved(p)
        \/ SaveCursor(p)
        \/ SyncFault(p)
        \/ Return(p)

SpecReplay == InitReplay /\ [][NextReplay]_vars

----------------------------------------------------------------------------
(* The handlers other than sync: requests of two users.  A request is a
   sequence of steps, one per call to the store or to an outside service. *)

Users == {"u1", "u2"}
OtherUser == "u2"

\* validate_uuid: the path parameter has the shape of a uuid or has not.
Malformed == "not-a-uuid"
validate_uuid(value) == value # Malformed

\* shared/response.py: error(code, message, status_code) and its callers.
error(code, message, status_code) ==
    [status |-> status_code, code |-> code, message |-> message]
Ok == [status |-> 200, code |-> None, message |-> None]
Created == [status |-> 201, code |-> None, message |-> None]
BadRequest(message) == error("VALIDATION_ERROR", message, 400)
NotFound(message) == error("NOT_FOUND", message, 404)
InternalError(message) == error("INTERNAL_ERROR", message, 500)
ServiceUnavailable(message) == error("SERVICE_UNAVAILABLE", message, 503)

\* The handler returns: the slot holds the response until it leaves.
Answer(r, response) == [r EXCEPT !.pc = "done", !.response = response]

\* A request of user_id arrives at slot p.
Arrive(p, op, user_id, id, body) ==
    [IdleReq EXCEPT !.op = op, !.user_id = user_id, !.id = id, !.body = body,
                    !.began = clock + 1]

\* Every request takes a tick of the clock; one that arrives while another is
\* in progress overlaps it.
Begin(p) ==
    /\ req[p].pc = "idle"
    /\ clock < MaxClock
    /\ clock' = clock + 1
    /\ serial' = (serial /\ \A q \in Procs : req[q].pc = "idle" /\ inv[q].pc = "idle")

\* generate_id for the account, goal and plan repositories: the next unused id.
NewId == Uuid(uuids + 1)

\* The partition of an item a request obtained (history).
Holding(r, items) == [r EXCEPT !.held = r.held \cup {it.pk : it \in items}]

----------------------------------------------------------------------------
(* Exact quotients: current_amount / target_amount is kept as a fraction in
   lowest terms, so that equal quotients are equal values. *)

RECURSIVE GCD(_, _)
GCD(a, b) == IF b = 0 THEN a ELSE GCD(b, a % b)

Frac(n, d) == LET g == GCD(n, d) IN <<n \div g, d \div g>>
Zero == <<0, 1>>

----------------------------------------------------------------------------
(* shared/database.py: GoalRepository *)

\* Mutant: the goal is found by its id in whatever partition holds it.
get_goal_AnyOwner(user_id, goal_id) ==
    LET ks == {k \in DOMAIN goals : k[2] = "GOAL#" \o goal_id}
    IN  IF ks = {} THEN NoItem ELSE goals[CHOOSE k \in ks : TRUE]

get_goal(user_id, goal_id) ==
    get_by_id(goals, "USER#" \o user_id, "GOAL#" \o goal_id)

\* progress = current_amount / target_amount if target_amount > 0 else 0
Progress(current_amount, target_amount) ==
    IF target_amount > 0 THEN Frac(current_amount, target_amount) ELSE Zero

\* create_goal: the item, with goal_data laid over the repository's fields.
create_goal(user_id, goal_id, goal_data) ==
    goal_data @@
    [pk |-> "USER#" \o user_id, sk |-> "GOAL#" \o goal_id,
     id |-> goal_id, user_id |-> user_id,
     created_at |-> get_timestamp, status |-> "active",
     progress |-> Progress(GetOr(goal_data, "current_amount", 0),
                           GetOr(goal_data, "target_amount", 1))]

\* update_goal, lines 276-281: the updates with the recomputed quotient, from
\* the goal as the repository has just read it.
update_goal_progress(updates, goal) ==
    [progress |->
        Progress(GetOr(updates, "current_amount", GetOr(goal, "current_amount", 0)),
                 GetOr(updates, "target_amount", GetOr(goal, "target_amount", 1)))]
    @@ updates

----------------------------------------------------------------------------
(* goals/*.py: the handlers.  Of a request body the amounts and the priority
   are kept; title, description, date and category are left out.  A body is a
   record of the fields the request gives. *)

\* validate_amount: a number that is not negative.
validate_amount(value) == value >= 0

\* goals/create_goal.py
CreateGoal(p, user_id, body) ==
    /\ Begin(p)
    /\ LET r == Arrive(p, "create_goal", user_id, None, body)
           current_amount == GetOr(body, "current_amount", 0)
           goal == create_goal(user_id, NewId,
                       [target_amount |-> body.target_amount,
                        current_amount |-> current_amount,
                        priority |-> 0,
                        progress |-> Progress(current_amount, body.target_amount)])
       IN  IF "target_amount" \notin DOMAIN body
           THEN /\ req' = [req EXCEPT ![p] =
                              Answer(r, BadRequest("Missing required fields: target_amount"))]
                /\ UNCHANGED <<goals, uuids>>
           ELSE IF ~validate_amount(body.target_amount)
           THEN /\ req' = [req EXCEPT ![p] =
                              Answer(r, BadRequest("Invalid target_amount: Amount cannot be negative"))]
                /\ UNCHANGED <<goals, uuids>>
           ELSE IF ~validate_amount(current_amount)
           THEN /\ req' = [req EXCEPT ![p] =
                              Answer(r, BadRequest("Invalid current_amount: Amount cannot be negative"))]
                /\ UNCHANGED <<goals, uuids>>
           ELSE IF body.target_amount <= 0
           THEN /\ req' = [req EXCEPT ![p] =
                              Answer(r, BadRequest("Target amount must be greater than 0"))]
                /\ UNCHANGED <<goals, uuids>>
           ELSE /\ uuids < MaxUuid
                /\ uuids' = uuids + 1
                /\ goals' = put(goals, goal)
                /\ req' = [req EXCEPT ![p] =
                              Answer([Holding(r, {goal}) EXCEPT !.out = goal], Created)]
    /\ UNCHANGED <<accounts, txns, plans, ana, syncVars>>

\* goals/update_goal.py, lines 39-103: up to the call of the repository.
UpdateGoal(p, user_id, goal_id, body) ==
    /\ Begin(p)
    /\ LET r == Arrive(p, "update_goal", user_id, goal_id, body)
           existing_goal == get_goal(user_id, goal_id)
           given == DOMAIN body
           updates == body
       IN  req' = [req EXCEPT ![p] =
             IF ~validate_uuid(goal_id)
             THEN Answer(r, BadRequest("Invalid goal ID format"))
             ELSE IF given = {}
             THEN Answer(r, BadRequest("Request body cannot be empty"))
             ELSE IF existing_goal = NoItem
             THEN Answer(r, NotFound("Goal not found"))
             ELSE IF "target_amount" \in given /\ ~validate_amount(body.target_amount)
             THEN Answer(Holding(r, {existing_goal}),
                         BadRequest("Invalid target_amount: Amount cannot be negative"))
             ELSE IF "target_amount" \in given /\ body.target_amount <= 0
             THEN Answer(Holding(r, {existing_goal}),
                         BadRequest("Target amount must be greater than 0"))
             ELSE IF "current_amount" \in given /\ ~validate_amount(body.current_amount)
             THEN Answer(Holding(r, {existing_goal}),
                         BadRequest("Invalid current_amount: Amount cannot be negative"))
             ELSE IF "priority" \in given /\ body.priority < 0
             THEN Answer(Holding(r, {existing_goal}),
                         BadRequest("Priority must be a non-negative integer"))
             ELSE [Holding(r, {existing_goal}) EXCEPT
                      !.item = existing_goal, !.updates = updates,
                      !.pc = "goal_update_read"]]
    /\ UNCHANGED <<accounts, txns, goals, plans, uuids, ana, syncVars>>

\* goals/contribute_to_goal.py, lines 33-65: up to the call of the repository.
ContributeToGoal(p, user_id, goal_id, body) ==
    /\ Begin(p)
    /\ LET r == Arrive(p, "contribute_to_goal", user_id, goal_id, body)
           amount == body.amount
           goal == get_goal(user_id, goal_id)
       IN  req' = [req EXCEPT ![p] =
             IF ~validate_uuid(goal_id)
             THEN Answer(r, BadRequest("Invalid goal ID format"))
             ELSE IF "amount" \notin DOMAIN body
             THEN Answer(r, BadRequest("Missing required fields: amount"))
             ELSE IF ~validate_amount(amount)
             THEN Answer(r, BadRequest("Invalid amount: Amount cannot be negative"))
             ELSE IF amount <= 0
             THEN Answer(r, BadRequest("Contribution amount must be greater than 0"))
             ELSE IF goal = NoItem
             THEN Answer(r, NotFound("Goal not found"))
             ELSE [Holding(r, {goal}) EXCEPT
                      !.item = goal,
                      !.updates = [current_amount |->
                                      GetOr(goal, "current_amount", 0) + amount],
                      !.pc = "goal_update_read"]]
    /\ UNCHANGED <<accounts, txns, goals, plans, uuids, ana, syncVars>>

\* database.py 273-281: update_goal stamps the updates and, when an amount is
\* among them, reads the goal again and recomputes the quotient.
GoalUpdateRead(p) ==
    /\ req[p].pc = "goal_update_read"
    /\ LET r == req[p]
           stamped == [last_updated |-> get_timestamp] @@ r.updates
           goal == get_goal(r.user_id, r.id)
       IN  req' = [req EXCEPT ![p] =
             IF "current_amount" \in DOMAIN r.updates \/ "target_amount" \in DOMAIN r.updates
             THEN IF goal # NoItem
                  THEN [Holding(r, {goal}) EXCEPT
                           !.updates = update_goal_progress(stamped, goal),
                           !.pc = "goal_update_write"]
                  ELSE [r EXCEPT !.updates = stamped, !.pc = "goal_update_write"]
             ELSE [r EXCEPT !.updates = stamped, !.pc = "goal_update_write"]]
    /\ UNCHANGED <<accounts, txns, goals, plans, uuids, clock, serial, ana, syncVars>>

\* database.py 283 and the handlers' success: the one write of the request.
GoalUpdateWrite(p) ==
    /\ req[p].pc = "goal_update_write"
    /\ LET r == req[p]
           after == update(goals, "USER#" \o r.user_id, "GOAL#" \o r.id, r.updates)
       IN  /\ goals' = after
           /\ req' = [req EXCEPT ![p] =
                 Answer([r EXCEPT !.out = after[Key("USER#" \o r.user_id, "GOAL#" \o r.id)]],
                        Ok)]
    /\ UNCHANGED <<accounts, txns, plans, uuids, clock, serial, ana, syncVars>>

\* goals/delete_goal.py, lines 25-40
DeleteGoal(p, user_id, goal_id) ==
    /\ Begin(p)
    /\ LET r == Arrive(p, "delete_goal", user_id, goal_id, None)
           existing_goal == get_goal(user_id, goal_id)
       IN  req' = [req EXCEPT ![p] =
             IF ~validate_uuid(goal_id)
             THEN Answer(r, BadRequest("Invalid goal ID format"))
             ELSE IF existing_goal = NoItem
             THEN Answer(r, NotFound("Goal not found"))
             ELSE [Holding(r, {existing_goal}) EXCEPT
                      !.item = existing_goal, !.pc = "goal_delete"]]
    /\ UNCHANGED <<accounts, txns, goals, plans, uuids, ana, syncVars>>

\* goals/delete_goal.py, lines 42-48
GoalDelete(p) ==
    /\ req[p].pc = "goal_delete"
    /\ goals' = delete(goals, "USER#" \o req[p].user_id, "GOAL#" \o req[p].id)
    /\ req' = [req EXCEPT ![p] = Answer(req[p], Ok)]
    /\ UNCHANGED <<accounts, txns, plans, uuids, clock, serial, ana, syncVars>>

\* goals/get_goal.py
GetGoal(p, user_id, goal_id) ==
    /\ Begin(p)
    /\ LET r == Arrive(p, "get_goal", user_id, goal_id, None)
           goal == get_goal(user_id, goal_id)
       IN  req' = [req EXCEPT ![p] =
             IF ~validate_uuid(goal_id)
             THEN Answer(r, BadRequest("Invalid goal ID format"))
             ELSE IF goal = NoItem
             THEN Answer(r, NotFound("Goal not found"))
             ELSE Answer([Holding(r, {goal}) EXCEPT !.out = goal], Ok)]
    /\ UNCHANGED <<accounts, txns, goals, plans, uuids, ana, syncVars>>

\* The response leaves; the slot is free for the next request.
Finish(p) ==
    /\ req[p].pc = "done"
    /\ req' = [req EXCEPT ![p] = IdleReq]
    /\ UNCHANGED <<accounts, txns, goals, plans, uuids, clock, serial, ana, syncVars>>

----------------------------------------------------------------------------
(* Goals: create, update and contribute requests of one user, overlapping or
   not, on a store that holds a goal created earlier. *)

GoalId == "g1"
OtherGoalId == "g2"
RequestedGoalIds == {"g1", "g2", Malformed}

\* create_goal.py 81-91 at an earlier time: the goal as it was created.
GoalItem(user_id, goal_id, current_amount, target_amount) ==
    [pk |-> "USER#" \o user_id, sk |-> "GOAL#" \o goal_id,
     id |-> goal_id, user_id |-> user_id,
     created_at |-> "T0", status |-> "active", priority |-> 0,
     target_amount |-> target_amount, current_amount |-> current_amount,
     progress |-> Progress(current_amount, target_amount)]

SyncIdle ==
    /\ log = << >>
    /\ stub = StubOff
    /\ inv = [p \in Procs |-> IdleInv]
    /\ hist = HistNone
    /\ clean = TRUE

InitGoals ==
    /\ accounts = << >>
    /\ txns = << >>
    /\ clock = 0
    /\ SyncIdle
    /\ \E current_amount \in {0, 5} :
          goals = (Key("USER#" \o UserId, "GOAL#" \o GoalId) :>
                      GoalItem(UserId, GoalId, current_amount, 10))
    /\ plans = << >>
    /\ uuids = 0
    /\ req = [p \in Procs |-> IdleReq]
    /\ serial = TRUE
    /\ ana = AnaNone

CreateBodies ==
    {<< >>, [target_amount |-> 0], [target_amount |-> 20],
     [target_amount |-> 20, current_amount |-> 5],
     [target_amount |-> 20, current_amount |-> 0 - 5]}
UpdateBodies ==
    {<< >>, [target_amount |-> 0], [target_amount |-> 20], [current_amount |-> 5],
     [target_amount |-> 20, current_amount |-> 30], [priority |-> 1]}
ContributeBodies == {<< >>, [amount |-> 0], [amount |-> 5]}

NextGoals ==
    \E p \in Procs :
        \/ \E body \in CreateBodies : CreateGoal(p, UserId, body)
        \/ \E goal_id \in RequestedGoalIds, body \in UpdateBodies :
              UpdateGoal(p, UserId, goal_id, body)
        \/ \E goal_id \in RequestedGoalIds, body \in ContributeBodies :
              ContributeToGoal(p, UserId, goal_id, body)
        \/ GoalUpdateRead(p)
        \/ GoalUpdateWrite(p)
        \/ Finish(p)

SpecGoals == InitGoals /\ [][NextGoals]_vars

----------------------------------------------------------------------------
(* shared/database.py: PlanRepository *)

PlanId == "p1"
OtherPlanId == "p2"

\* The order in which a query returns the sort keys of a partition.
IdOrder == <<"p1", "p2">> \o [n \in 1..(MaxUuid + 1) |-> Uuid(n)]

\* get_user_plans: the plans of the user's partition, the active ones only
\* when asked so.
get_user_plans(user_id, active_only) ==
    LET ids == SelectSeq(IdOrder, LAMBDA id :
                   /\ Key("USER#" \o user_id, "PLAN#" \o id) \in DOMAIN plans
                   /\ (active_only =>
                          GetOr(plans[Key("USER#" \o user_id, "PLAN#" \o id)],
                                "is_active", FALSE)))
    IN  [i \in 1..Len(ids) |-> plans[Key("USER#" \o user_id, "PLAN#" \o ids[i])]]

create_plan(user_id, plan_id, plan_data) ==
    plan_data @@
    [pk |-> "USER#" \o user_id, sk |-> "PLAN#" \o plan_id,
     id |-> plan_id, user_id |-> user_id,
     generated_at |-> get_timestamp, is_active |-> TRUE]

deactivate_plan(user_id, plan_id) ==
    update(plans, "USER#" \o user_id, "PLAN#" \o plan_id, [is_active |-> FALSE])

ItemsOf(list) == {list[i] : i \in 1..Len(list)}

----------------------------------------------------------------------------
(* plans/create_plan.py, chat/generate_plan.py, plans/deactivate_plan.py.
   Of a plan the summary is kept; the body of POST /plans is a record that
   gives the summary or does not. *)

\* create_plan.py 31-72: the validation and the query for the active plans.
CreatePlan(p, user_id, body) ==
    /\ Begin(p)
    /\ LET r == Arrive(p, "create_plan", user_id, None, body)
           existing_plans == get_user_plans(user_id, TRUE)
       IN  req' = [req EXCEPT ![p] =
             IF "summary" \notin DOMAIN body
             THEN Answer(r, BadRequest("Missing required fields: summary"))
             ELSE IF body.summary = ""
             THEN Answer(r, BadRequest("Summary cannot be empty"))
             ELSE [Holding(r, ItemsOf(existing_plans)) EXCEPT
                      !.list = existing_plans, !.i = 1,
                      !.updates = [summary |-> body.summary, is_active |-> TRUE],
                      !.pc = IF Len(existing_plans) = 0
                             THEN "plan_put" ELSE "plan_deactivate"]]
    /\ UNCHANGED <<accounts, txns, goals, plans, uuids, ana, syncVars>>

\* generate_plan.py 179-205: the financial context (reads that change
\* nothing), the model's answer and the query for the active plans.
GeneratePlan(p, user_id, ai_ok) ==
    /\ Begin(p)
    /\ LET r == Arrive(p, "generate_plan", user_id, None, None)
           existing_plans == get_user_plans(user_id, TRUE)
           context == {accounts[k] : k \in {k \in DOMAIN accounts : k[1] = "USER#" \o user_id}}
                      \cup {goals[k] : k \in {k \in DOMAIN goals : k[1] = "USER#" \o user_id}}
       IN  req' = [req EXCEPT ![p] =
             IF ~ai_ok
             THEN Answer(Holding(r, context),
                         ServiceUnavailable("AI service temporarily unavailable"))
             ELSE [Holding(r, context \cup ItemsOf(existing_plans)) EXCEPT
                      !.list = existing_plans, !.i = 1,
                      !.updates = [summary |-> "generated", is_active |-> TRUE],
                      !.pc = IF Len(existing_plans) = 0
                             THEN "plan_put" ELSE "plan_deactivate"]]
    /\ UNCHANGED <<accounts, txns, goals, plans, uuids, ana, syncVars>>

\* Mutant: the loop leaves the plan as it is.
PlanDeactivate_Skips(p) ==
    /\ req[p].pc = "plan_deactivate"
    /\ LET r == req[p]
       IN  /\ plans' = plans
           /\ req' = [req EXCEPT ![p] =
                 [r EXCEPT !.i = r.i + 1,
                           !.pc = IF r.i + 1 > Len(r.list)
                                  THEN "plan_put" ELSE "plan_deactivate"]]
    /\ UNCHANGED <<accounts, txns, goals, uuids, clock, serial, ana, syncVars>>

\* create_plan.py 73-74, generate_plan.py 206-207: one plan of the list read.
PlanDeactivate(p) ==
    /\ req[p].pc = "plan_deactivate"
    /\ LET r == req[p]
       IN  /\ plans' = deactivate_plan(r.user_id, r.list[r.i].id)
           /\ req' = [req EXCEPT ![p] =
                 [r EXCEPT !.i = r.i + 1,
                           !.pc = IF r.i + 1 > Len(r.list)
                                  THEN "plan_put" ELSE "plan_deactivate"]]
    /\ UNCHANGED <<accounts, txns, goals, uuids, clock, serial, ana, syncVars>>

\* Mutant: the put and the deactivation of every other plan of the user are
\* one transaction.
PlanPut_Exclusive(p) ==
    /\ req[p].pc = "plan_put"
    /\ uuids < MaxUuid
    /\ uuids' = uuids + 1
    /\ LET r == req[p]
           plan == create_plan(r.user_id, NewId, r.updates)
           off == [k \in DOMAIN plans |->
                      IF k[1] = plan.pk THEN [is_active |-> FALSE] @@ plans[k]
                      ELSE plans[k]]
       IN  /\ plans' = put(off, plan)
           /\ req' = [req EXCEPT ![p] =
                 Answer([Holding(r, {plan}) EXCEPT !.out = plan],
                        IF r.op = "create_plan" THEN Created ELSE Ok)]
    /\ UNCHANGED <<accounts, txns, goals, clock, serial, ana, syncVars>>

\* create_plan.py 76-94, generate_plan.py 209-237: the new plan is stored.
PlanPut(p) ==
    /\ req[p].pc = "plan_put"
    /\ uuids < MaxUuid
    /\ uuids' = uuids + 1
    /\ LET r == req[p]
           plan == create_plan(r.user_id, NewId, r.updates)
       IN  /\ plans' = put(plans, plan)
           /\ req' = [req EXCEPT ![p] =
                 Answer([Holding(r, {plan}) EXCEPT !.out = plan],
                        IF r.op = "create_plan" THEN Created ELSE Ok)]
    /\ UNCHANGED <<accounts, txns, goals, clock, serial, ana, syncVars>>

\* deactivate_plan.py 25-42: the plan is looked up among the user's plans.
DeactivatePlan(p, user_id, plan_id) ==
    /\ Begin(p)
    /\ LET r == Arrive(p, "deactivate_plan", user_id, plan_id, None)
           all_plans == get_user_plans(user_id, FALSE)
           found == {i \in 1..Len(all_plans) : all_plans[i].id = plan_id}
       IN  req' = [req EXCEPT ![p] =
             IF ~validate_uuid(plan_id)
             THEN Answer(r, BadRequest("Invalid plan ID format"))
             ELSE IF found = {}
             THEN Answer(Holding(r, ItemsOf(all_plans)), NotFound("Plan not found"))
             ELSE [Holding(r, ItemsOf(all_plans)) EXCEPT
                      !.list = all_plans, !.pc = "plan_deactivate_one"]]
    /\ UNCHANGED <<accounts, txns, goals, plans, uuids, ana, syncVars>>

\* deactivate_plan.py 44-50
PlanDeactivateOne(p) ==
    /\ req[p].pc = "plan_deactivate_one"
    /\ plans' = deactivate_plan(req[p].user_id, req[p].id)
    /\ req' = [req EXCEPT ![p] = Answer(req[p], Ok)]
    /\ UNCHANGED <<accounts, txns, goals, uuids, clock, serial, ana, syncVars>>

\* The message of each handler's outer except.
FailMessage(op) ==
    CASE op = "create_plan" -> "Failed to create plan"
      [] op = "generate_plan" -> "Failed to generate financial plan"
      [] op = "deactivate_plan" -> "Failed to deactivate plan"
      [] op = "create_goal" -> "Failed to create goal"
      [] op = "update_goal" -> "Failed to update goal"
      [] op = "contribute_to_goal" -> "Failed to add contribution"
      [] op = "delete_goal" -> "Failed to delete goal"
      [] op = "get_goal" -> "Failed to retrieve goal"
      [] op = "get_account" -> "Failed to retrieve account"
      [] op = "refresh_account" -> "Failed to refresh account"
      [] op = "delete_account" -> "Failed to unlink account"
      [] op = "link_account" -> "Failed to link account"
      [] op = "get_transactions" -> "Failed to retrieve transactions"
      [] OTHER -> "An internal error occurred"

\* The outer except of a handler: a call to the store fails, nothing is
\* written by it, and the request answers 500.
StoreFault(p) ==
    /\ req[p].pc \notin {"idle", "done"}
    /\ req' = [req EXCEPT ![p] = Answer(req[p], InternalError(FailMessage(req[p].op)))]
    /\ UNCHANGED <<accounts, txns, goals, plans, uuids, clock, serial, ana, syncVars>>

----------------------------------------------------------------------------
(* Plans: requests of one user, overlapping or not, on a store that holds an
   active plan created earlier, or none. *)

PlanItem(user_id, plan_id, is_active) ==
    [pk |-> "USER#" \o user_id, sk |-> "PLAN#" \o plan_id,
     id |-> plan_id, user_id |-> user_id,
     generated_at |-> "T0", is_active |-> is_active, summary |-> "first"]

InitPlans ==
    /\ accounts = << >>
    /\ txns = << >>
    /\ clock = 0
    /\ SyncIdle
    /\ goals = << >>
    /\ \/ plans = << >>
       \/ plans = (Key("USER#" \o UserId, "PLAN#" \o PlanId) :>
                      PlanItem(UserId, PlanId, TRUE))
    /\ uuids = 0
    /\ req = [p \in Procs |-> IdleReq]
    /\ serial = TRUE
    /\ ana = AnaNone

PlanBodies == {<< >>, [summary |-> ""], [summary |-> "s"]}
RequestedPlanIds == {"p1", "p2", Uuid(1), Malformed}

NextPlans ==
    \E p \in Procs :
        \/ \E body \in PlanBodies : CreatePlan(p, UserId, body)
        \/ \E ai_ok \in BOOLEAN : GeneratePlan(p, UserId, ai_ok)
        \/ \E plan_id \in RequestedPlanIds : DeactivatePlan(p, UserId, plan_id)
        \/ PlanDeactivate(p)
        \/ PlanPut(p)
        \/ PlanDeactivateOne(p)
        \/ StoreFault(p)
        \/ Finish(p)

SpecPlans == InitPlans /\ [][NextPlans]_vars

\* The active plans of a user.
ActivePlans(user_id) ==
    {k \in DOMAIN plans : k[1] = "USER#" \o user_id /\ GetOr(plans[k], "is_active", FALSE)}

CreatedPlan(r) ==
    r.pc = "done" /\ r.op \in {"create_plan", "generate_plan"} /\ r.response.status \in {200, 201}

----------------------------------------------------------------------------
(* accounts/get_account.py, refresh_account.py, delete_account.py,
   get_transactions.py, link_account.py *)

OtherAccountId == "acc2"
OtherPlaidAccount == "pa2"
OtherToken == "tok2"
NewPlaidAccount == "pa3"
NewToken == "tok3"
Balances == {0, 7}

\* get_account.py 23-51
GetAccount(p, user_id, account_id) ==
    /\ Begin(p)
    /\ LET r == Arrive(p, "get_account", user_id, account_id, None)
           account == get_account(user_id, account_id)
       IN  req' = [req EXCEPT ![p] =
             IF ~validate_uuid(account_id)
             THEN Answer(r, BadRequest("Invalid account ID format"))
             ELSE IF account = NoItem
             THEN Answer(r, NotFound("Account not found"))
             ELSE Answer([Holding(r, {account}) EXCEPT !.out = account], Ok)]
    /\ UNCHANGED <<accounts, txns, goals, plans, uuids, ana, syncVars>>

\* refresh_account.py 65-96 and 116-118: up to the update.  plaid_ok is
\* whether the credentials and the balance call succeed, balance the current
\* balance the aggregator reports for the account.
RefreshAccount(p, user_id, account_id, plaid_ok, balance) ==
    /\ Begin(p)
    /\ LET r == Arrive(p, "refresh_account", user_id, account_id, None)
           account == get_account(user_id, account_id)
       IN  req' = [req EXCEPT ![p] =
             IF ~validate_uuid(account_id)
             THEN Answer(r, BadRequest("Invalid account ID format"))
             ELSE IF account = NoItem
             THEN Answer(r, NotFound("Account not found"))
             ELSE IF GetOr(account, "plaid_access_token", None) # None
             THEN IF ~plaid_ok
                  THEN Answer(Holding(r, {account}),
                         ServiceUnavailable("Unable to refresh account data. Please try again later."))
                  ELSE [Holding(r, {account}) EXCEPT
                           !.item = account,
                           !.updates = [balance |-> balance, last_updated |-> "T" \o ToString(clock + 1)],
                           !.pc = "account_update"]
             ELSE [Holding(r, {account}) EXCEPT
                      !.item = account,
                      !.updates = [last_updated |-> "T" \o ToString(clock + 1)],
                      !.pc = "account_update"]]
    /\ UNCHANGED <<accounts, txns, goals, plans, uuids, ana, syncVars>>

\* refresh_account.py 98-110 and 120-129: the update and the answer.
AccountUpdate(p) ==
    /\ req[p].pc = "account_update"
    /\ LET r == req[p]
           after == update(accounts, "USER#" \o r.user_id, "ACCOUNT#" \o r.id, r.updates)
       IN  /\ accounts' = after
           /\ req' = [req EXCEPT ![p] = Answer([r EXCEPT !.out = r.updates], Ok)]
    /\ UNCHANGED <<txns, goals, plans, uuids, clock, serial, ana, syncVars>>

\* refresh_account.py 112-114: the store fails inside the inner try.
AccountUpdateFault(p) ==
    /\ req[p].pc = "account_update"
    /\ req' = [req EXCEPT ![p] =
          Answer(req[p],
                 IF GetOr(req[p].item, "plaid_access_token", None) # None
                 THEN ServiceUnavailable("Unable to refresh account data. Please try again later.")
                 ELSE InternalError(FailMessage(req[p].op)))]
    /\ UNCHANGED <<accounts, txns, goals, plans, uuids, clock, serial, ana, syncVars>>

\* delete_account.py 29-70: the revocation call. Without a token nothing is
\* called and the answer is True; the call and everything around it is inside
\* one try whose except returns False.
revoke_plaid_access(access_token, call_ok) ==
    IF access_token = None THEN TRUE ELSE call_ok

\* What the unlink notes of its revocation, kept in the slot's out.
Revocation(access_token, call_ok) ==
    IF access_token = None THEN "not_attempted"
    ELSE IF revoke_plaid_access(access_token, call_ok) THEN "revoked" ELSE "revoke_failed"

\* Mutant: a revocation that fails ends the request with the handler's 500.
DeleteAccount_RevokeRaises(p, user_id, account_id, revoke_ok) ==
    /\ Begin(p)
    /\ LET r == Arrive(p, "delete_account", user_id, account_id, None)
           account == get_account(user_id, account_id)
       IN  req' = [req EXCEPT ![p] =
             IF ~validate_uuid(account_id)
             THEN Answer(r, BadRequest("Invalid account ID format"))
             ELSE IF account = NoItem
             THEN Answer(r, NotFound("Account not found"))
             ELSE IF Revocation(GetOr(account, "plaid_access_token", None), revoke_ok) = "revoke_failed"
             THEN Answer([Holding(r, {account}) EXCEPT
                             !.item = account, !.out = "revoke_failed"],
                         InternalError(FailMessage("delete_account")))
             ELSE [Holding(r, {account}) EXCEPT
                      !.item = account,
                      !.out = Revocation(GetOr(account, "plaid_access_token", None), revoke_ok),
                      !.pc = "account_delete"]]
    /\ UNCHANGED <<accounts, txns, goals, plans, uuids, ana, syncVars>>

\* delete_account.py 74-96: the lookup and the best-effort revocation, whose
\* answer the handler does not read.
DeleteAccount(p, user_id, account_id, revoke_ok) ==
    /\ Begin(p)
    /\ LET r == Arrive(p, "delete_account", user_id, account_id, None)
           account == get_account(user_id, account_id)
       IN  req' = [req EXCEPT ![p] =
             IF ~validate_uuid(account_id)
             THEN Answer(r, BadRequest("Invalid account ID format"))
             ELSE IF account = NoItem
             THEN Answer(r, NotFound("Account not found"))
             ELSE [Holding(r, {account}) EXCEPT
                      !.item = account,
                      !.out = Revocation(GetOr(account, "plaid_access_token", None), revoke_ok),
                      !.pc = "account_delete"]]
    /\ UNCHANGED <<accounts, txns, goals, plans, uuids, ana, syncVars>>

\* Mutant: the unlink removes the account's transactions with it.
AccountDelete_Cascade(p) ==
    /\ req[p].pc = "account_delete"
    /\ accounts' = delete(accounts, "USER#" \o req[p].user_id, "ACCOUNT#" \o req[p].id)
    /\ txns' = [k \in {k \in DOMAIN txns : k[1] # "ACCOUNT#" \o req[p].id} |-> txns[k]]
    /\ req' = [req EXCEPT ![p] = Answer(req[p], Ok)]
    /\ UNCHANGED <<goals, plans, uuids, clock, serial, ana, syncVars>>

\* delete_account.py 98-104 and database.py 205-207: the account item goes.
AccountDelete(p) ==
    /\ req[p].pc = "account_delete"
    /\ accounts' = delete(accounts, "USER#" \o req[p].user_id, "ACCOUNT#" \o req[p].id)
    /\ req' = [req EXCEPT ![p] = Answer(req[p], Ok)]
    /\ UNCHANGED <<txns, goals, plans, uuids, clock, serial, ana, syncVars>>

\* get_transactions.py 31-114: the ownership check and the read of the
\* account's transactions.
GetTransactions(p, user_id, account_id) ==
    /\ Begin(p)
    /\ LET r == Arrive(p, "get_transactions", user_id, account_id, None)
           account == get_account(user_id, account_id)
           transactions == {txns[k] : k \in {k \in DOMAIN txns : k[1] = "ACCOUNT#" \o account_id}}
       IN  req' = [req EXCEPT ![p] =
             IF ~validate_uuid(account_id)
             THEN Answer(r, BadRequest("Invalid account ID format"))
             ELSE IF account = NoItem
             THEN Answer(r, NotFound("Account not found"))
             ELSE Answer([Holding(r, {account}) EXCEPT !.out = transactions], Ok)]
    /\ UNCHANGED <<accounts, txns, goals, plans, uuids, ana, syncVars>>

\* database.py 191-203 on link_account.py 155-168
create_account(user_id, account_id, account_data) ==
    account_data @@
    [pk |-> "USER#" \o user_id, sk |-> "ACCOUNT#" \o account_id,
     id |-> account_id, user_id |-> user_id,
     created_at |-> get_timestamp, last_updated |-> get_timestamp]

\* link_account.py 113-150: the calls to the aggregator.  outcome names the
\* call that fails, if any; the institution reports one account.
LinkAccount(p, user_id, outcome) ==
    /\ Begin(p)
    /\ LET r == Arrive(p, "link_account", user_id, None, None)
       IN  req' = [req EXCEPT ![p] =
             IF outcome = "secrets"
             THEN Answer(r, ServiceUnavailable("Account linking service temporarily unavailable"))
             ELSE IF outcome = "exchange"
             THEN Answer(r, BadRequest("Failed to link account. Please try again."))
             ELSE IF outcome = "no_accounts"
             THEN Answer(r, BadRequest("No accounts found for this institution"))
             ELSE [r EXCEPT !.updates = [plaid_account_id |-> NewPlaidAccount,
                                         plaid_access_token |-> NewToken,
                                         balance |-> 0, is_linked |-> TRUE],
                            !.pc = "account_put"]]
    /\ UNCHANGED <<accounts, txns, goals, plans, uuids, ana, syncVars>>

LinkOutcomes == {"ok", "secrets", "exchange", "no_accounts"}

\* link_account.py 152-192: the account record is created.
AccountPut(p) ==
    /\ req[p].pc = "account_put"
    /\ uuids < MaxUuid
    /\ uuids' = uuids + 1
    /\ LET r == req[p]
           created == create_account(r.user_id, NewId, r.updates)
       IN  /\ accounts' = put(accounts, created)
           /\ req' = [req EXCEPT ![p] =
                 Answer([Holding(r, {created}) EXCEPT !.out = created], Ok)]
    /\ UNCHANGED <<txns, goals, plans, clock, serial, ana, syncVars>>

\* The handlers that only read: the lists, the chat context and the
\* analytics.  Each queries the caller's partition of the tables it uses.
QueryOps == {"list_accounts", "list_goals", "list_plans", "send_message",
             "suggest_goals", "get_cash_flow", "get_spending_by_category",
             "get_budget_comparison", "get_savings_progress"}

ReadsAccounts(op) ==
    op \in {"list_accounts", "send_message", "suggest_goals", "get_cash_flow",
            "get_spending_by_category", "get_budget_comparison"}
ReadsGoals(op) ==
    op \in {"list_goals", "send_message", "suggest_goals", "get_savings_progress"}
ReadsPlans(op) == op = "list_plans"

Partition(table, user_id) ==
    {table[k] : k \in {k \in DOMAIN table : k[1] = "USER#" \o user_id}}

Query(p, user_id, op) ==
    /\ Begin(p)
    /\ LET r == Arrive(p, op, user_id, None, None)
           read == (IF ReadsAccounts(op) THEN Partition(accounts, user_id) ELSE {})
                   \cup (IF ReadsGoals(op) THEN Partition(goals, user_id) ELSE {})
                   \cup (IF ReadsPlans(op) THEN Partition(plans, user_id) ELSE {})
       IN  req' = [req EXCEPT ![p] = Answer(Holding(r, read), Ok)]
    /\ UNCHANGED <<accounts, txns, goals, plans, uuids, ana, syncVars>>

----------------------------------------------------------------------------
(* The application: requests of two users, one after another, on a store that
   holds the first user's account, goal and plan and, or not, the second
   user's. *)

OtherAccountItem ==
    [AccountItem(OtherToken) EXCEPT
        !.pk = "USER#" \o OtherUser, !.sk = "ACCOUNT#" \o OtherAccountId,
        !.id = OtherAccountId, !.user_id = OtherUser,
        !.plaid_account_id = OtherPlaidAccount]

\* The user whose partition holds the ids that exist before any request.
OwnerOf(id) ==
    IF id \in {AccountId, GoalId, PlanId} THEN UserId
    ELSE IF id \in {OtherAccountId, OtherGoalId, OtherPlanId} THEN OtherUser
    ELSE None

\* The remote ledger of the first user's account: a transaction was added and
\* then modified or removed.
AppLogs ==
    {<<[kind |-> "added", txn |-> PlaidTxn("t1", 5)],
       [kind |-> change, txn |-> PlaidTxn("t1", 0 - 5)]>> : change \in {"modified", "removed"}}

\* sync_transactions.py 279-312 at an earlier time: the account and the
\* transaction table as a sync that read the first change left them.
SyncedAccountItem ==
    [AccountItem(AccessToken) EXCEPT !.plaid_sync_cursor = CursorToken(1),
                                     !.last_synced = "T0"]
SyncedTxn == map_plaid_transaction(PlaidTxn("t1", 5), UserId, AccountId, << >>)

InitApp ==
    /\ \E other \in BOOLEAN, synced \in BOOLEAN :
          /\ accounts =
                (Key("USER#" \o UserId, "ACCOUNT#" \o AccountId) :>
                    (IF synced THEN SyncedAccountItem ELSE AccountItem(AccessToken)))
                @@ (IF other
                    THEN Key("USER#" \o OtherUser, "ACCOUNT#" \o OtherAccountId) :> OtherAccountItem
                    ELSE << >>)
          /\ txns = IF synced THEN Key(SyncedTxn.pk, SyncedTxn.sk) :> SyncedTxn ELSE << >>
          /\ goals =
                (Key("USER#" \o UserId, "GOAL#" \o GoalId) :> GoalItem(UserId, GoalId, 0, 10))
                @@ (IF other
                    THEN Key("USER#" \o OtherUser, "GOAL#" \o OtherGoalId) :>
                            GoalItem(OtherUser, OtherGoalId, 5, 10)
                    ELSE << >>)
          /\ plans =
                (Key("USER#" \o UserId, "PLAN#" \o PlanId) :> PlanItem(UserId, PlanId, TRUE))
                @@ (IF other
                    THEN Key("USER#" \o OtherUser, "PLAN#" \o OtherPlanId) :>
                            PlanItem(OtherUser, OtherPlanId, TRUE)
                    ELSE << >>)
    /\ log \in AppLogs
    /\ stub = StubOff
    /\ inv = [p \in Procs |-> IdleInv]
    /\ hist = HistNone
    /\ clean = TRUE
    /\ clock = 0
    /\ uuids = 0
    /\ req = [p \in Procs |-> IdleReq]
    /\ serial = TRUE
    /\ ana = AnaNone

AppQuiet == \A p \in Procs : req[p].pc = "idle"

RequestedIds == {AccountId, OtherAccountId, Malformed}
AppGoalBodies == {<< >>, [current_amount |-> 5]}
AppContributeBodies == {[amount |-> 0], [amount |-> 5]}

AccountRequest(p, user_id) ==
    \E account_id \in RequestedIds :
        \/ GetAccount(p, user_id, account_id)
        \/ \E plaid_ok \in BOOLEAN, balance \in Balances :
              RefreshAccount(p, user_id, account_id, plaid_ok, balance)
        \/ \E revoke_ok \in BOOLEAN : DeleteAccount(p, user_id, account_id, revoke_ok)
        \/ GetTransactions(p, user_id, account_id)

GoalRequest(p, user_id) ==
    \E goal_id \in RequestedGoalIds :
        \/ \E body \in AppGoalBodies : UpdateGoal(p, user_id, goal_id, body)
        \/ \E body \in AppContributeBodies : ContributeToGoal(p, user_id, goal_id, body)
        \/ DeleteGoal(p, user_id, goal_id)
        \/ GetGoal(p, user_id, goal_id)

PlanRequest(p, user_id) ==
    \/ CreatePlan(p, user_id, [summary |-> "s"])
    \/ \E ai_ok \in BOOLEAN : GeneratePlan(p, user_id, ai_ok)
    \/ \E plan_id \in RequestedPlanIds : DeactivatePlan(p, user_id, plan_id)

NextApp ==
    \E p \in SeqProcs :
          \/ AppQuiet /\ SyncRequest(p)
          \/ AppQuiet /\ LegacyRequest(p)
          \/ SyncCall(p)
          \/ ProcessAdded(p)
          \/ ProcessModified(p)
          \/ ProcessRemoved(p)
          \/ SaveCursor(p)
          \/ SyncFault(p)
          \/ LegacyCall(p)
          \/ LegacyPut(p)
          \/ LegacyUpdate(p)
          \/ LegacyFault(p)
          \/ Return(p)
          \/ Quiet /\ \E user_id \in Users :
                \/ AccountRequest(p, user_id)
                \/ GoalRequest(p, user_id)
                \/ PlanRequest(p, user_id)
                \/ \E outcome \in LinkOutcomes : LinkAccount(p, user_id, outcome)
                \/ \E body \in CreateBodies : CreateGoal(p, user_id, body)
                \/ \E op \in QueryOps : Query(p, user_id, op)
          \/ AccountUpdate(p)
          \/ AccountUpdateFault(p)
          \/ AccountDelete(p)
          \/ AccountPut(p)
          \/ GoalUpdateRead(p)
          \/ GoalUpdateWrite(p)
          \/ GoalDelete(p)
          \/ PlanDeactivate(p)
          \/ PlanPut(p)
          \/ PlanDeactivateOne(p)
          \/ StoreFault(p)
          \/ Finish(p)

SpecApp == InitApp /\ [][NextApp]_vars

----------------------------------------------------------------------------
(* analytics/get_cash_flow.py.  Amounts are thousandths of the currency unit;
   a date is the number of its day, 2024-01-01 (a Monday) being day 1; a
   transaction without a date has day 0, the empty string that sorts before
   every date. *)

MaxTxns == 2
Cent == 10
NoDay == 0
DaysInJanuary == 31

\* round(v, 2): to the nearest cent.  The amounts drawn below are even, so no
\* sum lies halfway between two cents.
Round2(v) ==
    IF v >= 0 THEN ((v + (Cent \div 2)) \div Cent) * Cent
    ELSE 0 - (((Abs(v) + (Cent \div 2)) \div Cent) * Cent)

\* get_cash_flow.py 41-48: the period key of a date.
PeriodKey(day, granularity) ==
    IF granularity = "daily" THEN day
    ELSE IF granularity = "weekly" THEN day - ((day - 1) % 7)
    ELSE IF day <= DaysInJanuary THEN 1 ELSE 2

\* defaultdict(float)[key] += v
AddTo(totals, key, v) ==
    IF key \in DOMAIN totals THEN [totals EXCEPT ![key] = @ + v]
    ELSE totals @@ (key :> v)

RECURSIVE aggregate_from(_, _, _, _, _)
aggregate_from(transactions, granularity, i, inflows, outflows) ==
    IF i > Len(transactions) THEN <<inflows, outflows>>
    ELSE LET txn == transactions[i]
             key == PeriodKey(txn.date, granularity)
         IN  IF txn.date = NoDay
             THEN aggregate_from(transactions, granularity, i + 1, inflows, outflows)
             ELSE IF txn.amount >= 0
             THEN aggregate_from(transactions, granularity, i + 1,
                                 AddTo(inflows, key, txn.amount), outflows)
             ELSE aggregate_from(transactions, granularity, i + 1,
                                 inflows, AddTo(outflows, key, Abs(txn.amount)))

aggregate_by_granularity(transactions, granularity) ==
    aggregate_from(transactions, granularity, 1, << >>, << >>)

RECURSIVE SumOver(_, _)
SumOver(f, S) ==
    IF S = {} THEN 0
    ELSE LET k == CHOOSE k \in S : TRUE IN f[k] + SumOver(f, S \ {k})

\* sum(totals.values())
SumValues(totals) == SumOver(totals, DOMAIN totals)

\* get_cash_flow.py 99-127: the range filter, the aggregation and the body of
\* the response.
cash_flow(transactions, start_date, end_date, granularity) ==
    LET all_transactions ==
            SelectSeq(transactions, LAMBDA txn : start_date <= txn.date /\ txn.date <= end_date)
        agg == aggregate_by_granularity(all_transactions, granularity)
        inflows == agg[1]
        outflows == agg[2]
        total_inflow == SumValues(inflows)
        total_outflow == SumValues(outflows)
        net_flow == total_inflow - total_outflow
    IN  [inflows |-> [k \in DOMAIN inflows |-> Round2(inflows[k])],
         outflows |-> [k \in DOMAIN outflows |-> Round2(outflows[k])],
         net_flow |-> Round2(net_flow),
         total_inflow |-> Round2(total_inflow),
         total_outflow |-> Round2(total_outflow)]

AnaIdle ==
    /\ accounts = << >>
    /\ txns = << >>
    /\ clock = 0
    /\ SyncIdle
    /\ goals = << >>
    /\ plans = << >>
    /\ uuids = 0
    /\ req = [p \in Procs |-> IdleReq]
    /\ serial = TRUE

\* The handler's computation on the transactions it collected.
GetCashFlow(transactions, start_date, end_date, granularity) ==
    /\ ana.fn = None
    /\ ana' = [fn |-> "get_cash_flow",
               input |-> [transactions |-> transactions, start_date |-> start_date,
                          end_date |-> end_date, granularity |-> granularity],
               out |-> cash_flow(transactions, start_date, end_date, granularity)]
    /\ UNCHANGED <<accounts, txns, clock, goals, plans, uuids, req, serial, syncVars>>

FlowAmounts == {0 - 1002, 6, 1000}
FlowDays == {NoDay, 1, 7, 8, DaysInJanuary + 1}
FlowTxns == [amount : FlowAmounts, date : FlowDays]
FlowRanges == {<<1, DaysInJanuary>>, <<8, DaysInJanuary + DaysInJanuary>>}
Granularities == {"daily", "weekly", "monthly"}

----------------------------------------------------------------------------
(* analytics/get_spending_by_category.py.  A percentage is kept in
   ten-thousandths, the unit round(percentage, 4) reports. *)

MaxSpend == 3
PerUnit == 10000

\* round(n / d, 4), for n >= 0 and d > 0.  The totals drawn below are below 32
\* units, so no quotient lies halfway between two ten-thousandths.
Round4(n, d) == ((2 * n * PerUnit) + d) \div (2 * d)

\* get_spending_by_category.py 76-90: the expenses of the range, by category,
\* the categories in the order in which they first appear.
RECURSIVE spending_from(_, _, _, _, _)
spending_from(transactions, start_date, end_date, i, acc) ==
    IF i > Len(transactions) THEN acc
    ELSE LET txn == transactions[i]
             category == txn.category_name
         IN  IF txn.amount >= 0 \/ ~(start_date <= txn.date /\ txn.date <= end_date)
             THEN spending_from(transactions, start_date, end_date, i + 1, acc)
             ELSE spending_from(transactions, start_date, end_date, i + 1,
                    [order |-> IF category \in DOMAIN acc.amount THEN acc.order
                               ELSE Append(acc.order, category),
                     amount |-> AddTo(acc.amount, category, Abs(txn.amount)),
                     count |-> AddTo(acc.count, category, 1)])

\* sorted(items, key=amount, reverse=True): a stable sort, so categories of
\* equal amount stay in the order they had.
RECURSIVE sorted_by_amount(_, _)
sorted_by_amount(order, amount) ==
    IF order = << >> THEN << >>
    ELSE LET first == CHOOSE i \in 1..Len(order) :
                          /\ \A j \in 1..Len(order) : amount[order[j]] <= amount[order[i]]
                          /\ \A j \in 1..(i - 1) : amount[order[j]] < amount[order[i]]
             rest == [j \in 1..(Len(order) - 1) |->
                         IF j < first THEN order[j] ELSE order[j + 1]]
         IN  <<order[first]>> \o sorted_by_amount(rest, amount)

\* get_spending_by_category.py 92-115
spending_by_category(transactions, start_date, end_date) ==
    LET category_spending ==
            spending_from(transactions, start_date, end_date, 1,
                          [order |-> << >>, amount |-> << >>, count |-> << >>])
        total_spending == SumValues(category_spending.amount)
        names == sorted_by_amount(category_spending.order, category_spending.amount)
    IN  [categories |->
            [i \in 1..Len(names) |->
                [category_name |-> names[i],
                 amount |-> Round2(category_spending.amount[names[i]]),
                 percentage |-> IF total_spending > 0
                                THEN Round4(category_spending.amount[names[i]], total_spending)
                                ELSE 0,
                 transaction_count |-> category_spending.count[names[i]]]],
         total_spending |-> Round2(total_spending)]

GetSpendingByCategory(transactions, start_date, end_date) ==
    /\ ana.fn = None
    /\ ana' = [fn |-> "get_spending_by_category",
               input |-> [transactions |-> transactions, start_date |-> start_date,
                          end_date |-> end_date],
               out |-> spending_by_category(transactions, start_date, end_date)]
    /\ UNCHANGED <<accounts, txns, clock, goals, plans, uuids, req, serial, syncVars>>

SpendAmounts == {0 - 4000, 0 - 1000, 2000}
SpendDays == {1, DaysInJanuary + 1}
Categories == {"Food", "Rent", "Other"}
SpendTxns == [amount : SpendAmounts, date : SpendDays, category_name : Categories]

----------------------------------------------------------------------------
(* analytics/get_budget_comparison.py.  A number carries its Python type: the
   table resource hands the numbers of a stored item out as Decimal,
   defaultdict(float) and sums of its values are float, and a default 0 is
   an int. *)

IntNum(v) == [type |-> "int", v |-> v]
FloatNum(v) == [type |-> "float", v |-> v]
DecimalNum(v) == [type |-> "Decimal", v |-> v]

\* a / b raises TypeError between a float and a Decimal.
DivRaises(a, b) == {a.type, b.type} = {"float", "Decimal"}
DivType(a, b) == IF "Decimal" \in {a.type, b.type} THEN "Decimal" ELSE "float"

\* round(x, n) of a Decimal is a Decimal, which json.dumps (response.py 28)
\* does not serialise.
Serialisable(x) == x.type # "Decimal"

\* get_budget_comparison.py 63-70: the first day of the month and of the next.
DaysInFebruary == 29
MonthStart(month) ==
    IF month = 1 THEN 1
    ELSE IF month = 2 THEN 1 + DaysInJanuary
    ELSE 1 + DaysInJanuary + DaysInFebruary

\* get_budget_comparison.py 90-102: the expenses of the month by category.
RECURSIVE actual_from(_, _, _, _)
actual_from(transactions, month, i, category_actual) ==
    IF i > Len(transactions) THEN category_actual
    ELSE LET txn == transactions[i]
         IN  IF \/ txn.amount >= 0
                \/ ~(MonthStart(month) <= txn.date /\ txn.date < MonthStart(month + 1))
             THEN actual_from(transactions, month, i + 1, category_actual)
             ELSE actual_from(transactions, month, i + 1,
                              AddTo(category_actual, txn.category_name, Abs(txn.amount)))

\* get_budget_comparison.py 58-60 and 104-135: budget is the item as
\* get_user_budget returned it, the empty dict when none is stored.
budget_comparison(budget, transactions, month) ==
    LET budgeted_total == GetOr(budget, "total_budget", IntNum(0))
        category_budgets == GetOr(budget, "categories", << >>)
        category_actual == actual_from(transactions, month, 1, << >>)
        actual_total == IF DOMAIN category_actual = {} THEN IntNum(0)
                        ELSE FloatNum(SumValues(category_actual))
        is_over_budget == IF budgeted_total.v > 0
                          THEN actual_total.v > budgeted_total.v ELSE FALSE
        divides == budgeted_total.v > 0
        percent_used == IF divides
                        THEN [type |-> DivType(actual_total, budgeted_total),
                              v |-> Round4(actual_total.v, budgeted_total.v)]
                        ELSE IntNum(0)
        all_categories == DOMAIN category_budgets \cup DOMAIN category_actual
        by_category ==
            [category_name \in all_categories |->
                LET cat_budgeted == GetOr(category_budgets, category_name, IntNum(0))
                    cat_actual == IF category_name \in DOMAIN category_actual
                                  THEN FloatNum(category_actual[category_name]) ELSE IntNum(0)
                IN  [budgeted |-> [cat_budgeted EXCEPT !.v = Round2(@)],
                     actual |-> [cat_actual EXCEPT !.v = Round2(@)],
                     is_over_budget |-> IF cat_budgeted.v > 0
                                        THEN cat_actual.v > cat_budgeted.v ELSE FALSE]]
        raises ==
            \/ divides /\ DivRaises(actual_total, budgeted_total)
            \/ ~Serialisable(budgeted_total)
            \/ ~Serialisable(percent_used)
            \/ \E c \in all_categories : ~Serialisable(by_category[c].budgeted)
    IN  IF raises
        THEN [response |-> InternalError("Failed to retrieve budget comparison"),
              body |-> << >>]
        ELSE [response |-> Ok,
              body |-> [budgeted |-> Round2(budgeted_total.v),
                        actual |-> Round2(actual_total.v),
                        is_over_budget |-> is_over_budget,
                        percent_used |-> percent_used.v,
                        by_category |-> by_category]]

GetBudgetComparison(budget, transactions, month) ==
    /\ ana.fn = None
    /\ ana' = [fn |-> "get_budget_comparison",
               input |-> [budget |-> budget, transactions |-> transactions, month |-> month],
               out |-> budget_comparison(budget, transactions, month)]
    /\ UNCHANGED <<accounts, txns, clock, goals, plans, uuids, req, serial, syncVars>>

\* The budget items a month can have: none, or one with a total, with
\* category budgets, or with both.
Budgets ==
    {<< >>,
     [total_budget |-> DecimalNum(0)],
     [total_budget |-> DecimalNum(3000)],
     [categories |-> ("Food" :> DecimalNum(2000))],
     [total_budget |-> DecimalNum(3000),
      categories |-> ("Food" :> DecimalNum(2000)) @@ ("Rent" :> DecimalNum(0))]}
BudgetAmounts == {0 - 4000, 0 - 1000, 2000}
BudgetTxns == [amount : BudgetAmounts, date : {1, DaysInJanuary + 1},
               category_name : {"Food", "Other"}]
Months == {1, 2}

----------------------------------------------------------------------------
(* analytics/get_savings_progress.py.  A time is a number of half days, a
   date the number of its day: the date of time t is t \div TicksPerDay and
   midnight of day d is the time d * TicksPerDay.  A value that is None or
   absent is the empty sequence, one that is present a sequence of one. *)

TicksPerDay == 2
DaysPerMonth == 30
Nothing == << >>
Just(v) == <<v>>

\* timedelta.days of the difference of two times
DaysBetween(later, earlier) == (later - earlier) \div TicksPerDay

Projection(date, on_track, monthly_contribution) ==
    [raised |-> FALSE, date |-> date, on_track |-> on_track,
     monthly_contribution |-> monthly_contribution]
\* line 43: created, parsed from a timestamp that ends in Z, is aware and
\* target is naive, and their comparison raises TypeError.
Raised == [raised |-> TRUE, date |-> Nothing, on_track |-> FALSE,
           monthly_contribution |-> Zero]

\* get_savings_progress.py 22-70
calculate_projected_completion(goal, now) ==
    IF goal.target_date = Nothing \/ goal.target_amount <= 0
    THEN Projection(Nothing, FALSE, Zero)
    ELSE IF goal.created_at = Nothing
    THEN Projection(Nothing, FALSE, Zero)
    ELSE LET current_amount == goal.current_amount
             target == goal.target_date[1] * TicksPerDay
             created == goal.created_at[1]
             remaining == goal.target_amount - current_amount
             days_elapsed == DaysBetween(now, created)
             days_to_target == DaysBetween(target, now)
             days_to_complete == (remaining * days_elapsed) \div current_amount
             projected_date == now + (days_to_complete * TicksPerDay)
         IN  IF remaining <= 0 THEN Raised
             ELSE IF days_elapsed <= 0
             THEN Projection(goal.target_date, TRUE, Zero)
             ELSE IF days_to_target <= 0
             THEN Projection(goal.target_date, FALSE,
                             Frac(current_amount * DaysPerMonth, days_elapsed))
             ELSE IF current_amount > 0
             THEN Projection(Just(projected_date \div TicksPerDay),
                             projected_date <= target,
                             Frac(current_amount * DaysPerMonth, days_elapsed))
             ELSE Projection(Nothing, FALSE,
                             Frac(current_amount * DaysPerMonth, days_elapsed))

GetSavingsProgress(goal, now) ==
    /\ ana.fn = None
    /\ ana' = [fn |-> "get_savings_progress",
               input |-> [goal |-> goal, now |-> now],
               out |-> calculate_projected_completion(goal, now)]
    /\ UNCHANGED <<accounts, txns, clock, goals, plans, uuids, req, serial, syncVars>>

ProjectionGoals ==
    [current_amount : {0, 200, 1000}, target_amount : {0, 1000},
     target_date : {Nothing, Just(3), Just(5), Just(12), Just(40)},
     created_at : {Nothing, Just(4), Just(5)}]
Nows == {5, 8, 9, 12}

----------------------------------------------------------------------------
(* The analytics computations, each applied once to the transactions, budget
   or goal it is given. *)

InitAnalytics ==
    /\ AnaIdle
    /\ ana = AnaNone

NextAnalytics ==
    \/ \E transactions \in SeqsUpTo(FlowTxns, MaxTxns), range \in FlowRanges,
          granularity \in Granularities :
          GetCashFlow(transactions, range[1], range[2], granularity)
    \/ \E transactions \in SeqsUpTo(SpendTxns, MaxSpend) :
          GetSpendingByCategory(transactions, 1, DaysInJanuary)
    \/ \E budget \in Budgets, transactions \in SeqsUpTo(BudgetTxns, MaxTxns),
          month \in Months :
          GetBudgetComparison(budget, transactions, month)
    \/ \E goal \in ProjectionGoals, now \in Nows : GetSavingsProgress(goal, now)

SpecAnalytics == InitAnalytics /\ [][NextAnalytics]_vars

----------------------------------------------------------------------------
(* The analytics handlers on the store: each collects the transactions of the
   user's accounts and computes on them. *)

RECURSIVE SeqOfKeys(_)
SeqOfKeys(S) ==
    IF S = {} THEN << >>
    ELSE LET k == CHOOSE k \in S : TRUE IN <<k>> \o SeqOfKeys(S \ {k})

\* get_cash_flow.py 84-97: the stored transactions as the handlers read them,
\* a transaction without a category counting under the handler's default.
StoredTransactions ==
    LET keys == SeqOfKeys(DOMAIN txns)
    IN  [i \in 1..Len(keys) |->
            [amount |-> txns[keys[i]].amount, date |-> txns[keys[i]].date,
             category_name |-> "Uncategorized"]]

----------------------------------------------------------------------------
(* Overlapping incremental syncs of one linked account.  Each invocation is a
   Lambda of its own: it reads the cursor with the account, makes its delta
   call, writes the page and saves the page's cursor, and the remote ledger
   may change between the calls of two invocations. *)

InitOverlap ==
    /\ accounts = (Key("USER#" \o UserId, "ACCOUNT#" \o AccountId) :> AccountItem(AccessToken))
    /\ txns = << >>
    /\ log = << >>
    /\ stub = StubOff
    /\ clock = 0
    /\ inv = [p \in Procs |-> IdleInv]
    /\ hist = HistNone
    /\ clean = TRUE
    /\ AppIdle

OverlapLedgerChange ==
    \/ LedgerAdd("t1", 5)
    \/ LedgerModify("t1", 0)
    \/ LedgerRemove("t1")

NextOverlap ==
    \/ \E p \in Procs :
          \/ Request(p, AccountId, TRUE, TRUE, DefaultDays, "none")
          \/ SyncCall(p)
          \/ ProcessAdded(p)
          \/ ProcessModified(p)
          \/ ProcessRemoved(p)
          \/ SaveCursor(p)
          \/ Return(p)
    \/ OverlapLedgerChange

SpecOverlap == InitOverlap /\ [][NextOverlap]_vars

----------------------------------------------------------------------------
(* An unlink of a linked account while a sync or a refresh of that account is
   in flight: three Lambdas on one account item. *)

InitUnlink ==
    /\ accounts = (Key("USER#" \o UserId, "ACCOUNT#" \o AccountId) :> AccountItem(AccessToken))
    /\ txns = << >>
    /\ log = <<[kind |-> "added", txn |-> PlaidTxn("t1", 5)]>>
    /\ stub = StubOff
    /\ clock = 0
    /\ inv = [p \in Procs |-> IdleInv]
    /\ hist = HistNone
    /\ clean = TRUE
    /\ AppIdle

NextUnlink ==
    \E p \in Procs :
        \/ Request(p, AccountId, TRUE, TRUE, DefaultDays, "none")
        \/ SyncCall(p)
        \/ ProcessAdded(p)
        \/ SaveCursor(p)
        \/ Return(p)
        \/ \E balance \in Balances : RefreshAccount(p, UserId, AccountId, TRUE, balance)
        \/ AccountUpdate(p)
        \/ \E revoke_ok \in BOOLEAN : DeleteAccount(p, UserId, AccountId, revoke_ok)
        \/ AccountDelete(p)
        \/ Finish(p)

SpecUnlink == InitUnlink /\ [][NextUnlink]_vars

----------------------------------------------------------------------------
(* Properties *)

StoredAccount == get_account(UserId, AccountId)
StoredCursor == StoredAccount.plaid_sync_cursor

TxnKey(t) == Key("ACCOUNT#" \o AccountId, "TXN#" \o t)

SyncPcs == {"sync_call", "added", "modified", "removed", "update"}
LegacyPcs == {"legacy_call", "legacy_put", "legacy_update"}

\* A finished incremental sync that answered 200 (every other path of the
\* handler answers an error, and the legacy branch clears use_sync).
SyncSucceeded(r) == r.pc = "done" /\ r.status = 200 /\ r.use_sync
LegacySucceeded(r) == r.pc = "done" /\ r.status = 200 /\ ~r.use_sync

CountLinked(recs) ==
    Cardinality({i \in 1..Len(recs) : recs[i].account_id = LinkedPlaidAccount})

\* The transactions table that mirrors the remote ledger after its first n
\* changes: one item per live transaction of the linked external account.
ExpectedTable(n) ==
    LET L == LedgerAt(n)
        ids == {t \in DOMAIN L : L[t].account_id = LinkedPlaidAccount}
    IN  [k \in {TxnKey(t) : t \in ids} |->
            LET t == CHOOSE u \in ids : k = TxnKey(u)
            IN  [pk |-> k[1], sk |-> k[2], id |-> t, user_id |-> UserId,
                 account_id |-> AccountId, plaid_transaction_id |-> t,
                 amount |-> Abs(L[t].amount), is_debit |-> L[t].amount > 0,
                 date |-> L[t].date]]

RECURSIVE PutAll(_, _, _)
PutAll(table, recs, r) ==
    IF recs = << >> THEN table
    ELSE PutAll(IF OfLinkedAccount(Head(recs), r.account)
                THEN put(table, map_plaid_transaction(Head(recs), UserId,
                                                      r.account_id, table))
                ELSE table,
                Tail(recs), r)

RECURSIVE DeleteAll(_, _, _)
DeleteAll(table, recs, r) ==
    IF recs = << >> THEN table
    ELSE DeleteAll(IF Get(Head(recs).transaction_id) # None
                   THEN delete(table, "ACCOUNT#" \o r.account_id,
                               "TXN#" \o Head(recs).transaction_id)
                   ELSE table,
                   Tail(recs), r)

\* What one uninterrupted run of request r over its response leaves of table.
OneRun(table, r) ==
    DeleteAll(PutAll(PutAll(table, r.resp.added, r), r.resp.modified, r),
              r.resp.removed, r)

\* Every record of the response that the handler stores has a transaction id.
Identified(resp, account) ==
    /\ \A i \in 1..Len(resp.added) :
          OfLinkedAccount(resp.added[i], account) => resp.added[i].transaction_id # Absent
    /\ \A i \in 1..Len(resp.modified) :
          OfLinkedAccount(resp.modified[i], account) => resp.modified[i].transaction_id # Absent

\* C1: an incremental sync in which the delta call, an upsert or a delete (or
\* the account update) failed answers 503 SERVICE_UNAVAILABLE, and the stored
\* cursor is the one the request read when it started.
C1_FailedSyncKeepsCursor ==
    \A p \in Procs :
        (inv[p].pc = "done" /\ inv[p].use_sync /\ inv[p].faulted) =>
            /\ inv[p].status = 503
            /\ inv[p].code = "SERVICE_UNAVAILABLE"
            /\ get_account(UserId, inv[p].account_id).plaid_sync_cursor = inv[p].cursor

\* C1 witness: a sync failed after it had written a transaction, with a
\* response whose next_cursor differs from the stored cursor.
C1_Witness ==
    \E p \in Procs :
        /\ inv[p].pc = "done" /\ inv[p].use_sync /\ inv[p].faulted
        /\ inv[p].calls = 1
        /\ txns # inv[p].pre
        /\ inv[p].resp.next_cursor # inv[p].cursor

\* C2: while only successful incremental syncs have run, one after another,
\* from an empty log and no cursor, the transactions table between requests is
\* the remote ledger of the linked account as of the stored cursor; and when a
\* sync ends with has_more = false the table is the remote ledger as of the call.
C2_LocalLogFollowsLedger ==
    /\ (clean /\ Quiet) => txns = ExpectedTable(CursorPos(StoredCursor))
    /\ \A p \in Procs :
          (clean /\ SyncSucceeded(inv[p]) /\ ~inv[p].resp.has_more) =>
              txns = ExpectedTable(inv[p].remoteLen)

\* C2 witness: two pages were applied, the second with a change other than an
\* addition to the linked account, and the log is drained.
C2_Witness ==
    /\ clean /\ Quiet
    /\ Len(log) >= 2
    /\ CursorPos(StoredCursor) = Len(log)
    /\ txns # << >>
    /\ \E i \in 1..Len(log) :
          log[i].kind # "added" /\ log[i].txn.account_id = LinkedPlaidAccount

\* C3 (as claimed): a second successful application of the same response
\* leaves the transactions table the first application left, for every
\* response, records without a transaction id included.
C3_ReplayKeepsTable ==
    \A p \in Procs :
        (SyncSucceeded(inv[p]) /\ hist.outcome = "ok" /\ hist.resp = inv[p].resp) =>
            txns = hist.table

\* C3 (amended): a second successful application of the same response leaves
\* the transactions table the first application left, when every added or
\* modified record of the linked account carries a transaction id.
C3_ReplayKeepsTableIdentified ==
    \A p \in Procs :
        (/\ SyncSucceeded(inv[p])
         /\ hist.outcome = "ok" /\ hist.resp = inv[p].resp
         /\ Identified(inv[p].resp, inv[p].account)) =>
            txns = hist.table

\* C3 witness: the same response, with an identified record of the linked
\* account in added and one in modified, was applied twice.
C3_Witness ==
    \E p \in Procs :
        /\ SyncSucceeded(inv[p])
        /\ hist.outcome = "ok" /\ hist.resp = inv[p].resp
        /\ Identified(inv[p].resp, inv[p].account)
        /\ CountLinked(inv[p].resp.added) > 0
        /\ CountLinked(inv[p].resp.modified) > 0
        /\ txns # << >>

\* C4: when a sync failed after its delta call and the next sync receives the
\* same response and succeeds, the transactions table is the one a single
\* uninterrupted run over the table before the failed sync leaves, and the
\* stored cursor is the response's next_cursor.
C4_RetryEqualsOneRun ==
    \A p \in Procs :
        (SyncSucceeded(inv[p]) /\ hist.outcome = "failed" /\ hist.resp = inv[p].resp) =>
            /\ txns = OneRun(hist.table, inv[p])
            /\ StoredCursor = inv[p].resp.next_cursor

\* C4 witness: the failed sync had written a transaction before it failed, and
\* the retry succeeded with the same response.
C4_Witness ==
    \E p \in Procs :
        /\ SyncSucceeded(inv[p])
        /\ hist.outcome = "failed" /\ hist.resp = inv[p].resp
        /\ hist.wrote
        /\ txns # hist.table

\* C5: a request makes at most one delta call; a successful incremental sync
\* made exactly one, the account holds the response's next_cursor and the
\* timestamp of this request whatever has_more says, and the cursor and
\* has_more it reports are the stored cursor and the response's has_more.
C5_OneCallThenCursor ==
    /\ \A p \in Procs : inv[p].calls <= 1
    /\ \A p \in Procs :
          SyncSucceeded(inv[p]) =>
              /\ inv[p].calls = 1
              /\ StoredCursor = inv[p].resp.next_cursor
              /\ StoredAccount.last_synced = get_timestamp
              /\ inv[p].stats.cursor = StoredCursor
              /\ inv[p].stats.has_more = inv[p].resp.has_more

\* C5 witness: a sync succeeded on a response with has_more = true.
C5_Witness ==
    \E p \in Procs :
        /\ SyncSucceeded(inv[p])
        /\ inv[p].resp.has_more
        /\ StoredCursor # inv[p].cursor

\* The aggregator record the request is about to map, at a step that maps one.
Maps(r) == r.pc \in {"added", "modified", "legacy_put"}
Current(r) ==
    IF r.pc = "added" THEN r.resp.added[r.i]
    ELSE IF r.pc = "modified" THEN r.resp.modified[r.i]
    ELSE r.transactions[r.i]

C7_ForeignRecordsSkipped ==
    /\ \A k \in DOMAIN txns :
          /\ txns[k].plaid_transaction_id \in TxnIds
          /\ RemoteAccountOf(txns[k].plaid_transaction_id) = LinkedPlaidAccount
    /\ \A p \in Procs :
          SyncSucceeded(inv[p]) =>
              /\ inv[p].stats.added = CountLinked(inv[p].resp.added)
              /\ inv[p].stats.modified = CountLinked(inv[p].resp.modified)

\* C7 witness: a sync succeeded on a response with a modified record of
\* another external account.
C7_Witness ==
    \E p \in Procs :
        /\ SyncSucceeded(inv[p])
        /\ Len(inv[p].resp.modified) > CountLinked(inv[p].resp.modified)
        /\ inv[p].stats.modified = 0

\* C8: a step that deletes the key of a removed record that is not stored, and
\* whose call to the store does not fail, leaves the table as it is, counts
\* the record and moves on; and a sync that got its response and in which no
\* call failed ends with 200 and the cursor saved.
C8_DeleteOfMissingKey ==
    /\ [][\A p \in Procs :
            (/\ inv[p].pc = "removed"
             /\ inv'[p] # inv[p]
             /\ ~inv'[p].faulted
             /\ Get(inv[p].resp.removed[inv[p].i].transaction_id) # None
             /\ TxnKey(inv[p].resp.removed[inv[p].i].transaction_id) \notin DOMAIN txns) =>
                /\ txns' = txns
                /\ inv'[p].pc \in {"removed", "update"}
                /\ inv'[p].stats.removed = inv[p].stats.removed + 1]_vars
    /\ [](\A p \in Procs :
            (inv[p].pc = "done" /\ inv[p].calls = 1 /\ ~inv[p].faulted) =>
                /\ inv[p].status = 200
                /\ StoredCursor = inv[p].resp.next_cursor)

\* C8 witness: a sync succeeded whose response removed a transaction that was
\* not stored before the request and that the response did not add.
C8_Witness ==
    \E p \in Procs :
        /\ SyncSucceeded(inv[p])
        /\ \E i \in 1..Len(inv[p].resp.removed) :
              LET t == inv[p].resp.removed[i].transaction_id
              IN  /\ TxnKey(t) \notin DOMAIN inv[p].pre
                  /\ \A j \in 1..Len(inv[p].resp.added) :
                        inv[p].resp.added[j].transaction_id # t
                  /\ \A j \in 1..Len(inv[p].resp.modified) :
                        inv[p].resp.modified[j].transaction_id # t
        /\ inv[p].stats.removed > 0

\* C9: no step of a legacy-range sync, failing or not, changes an attribute of
\* the account other than last_synced (the cursor stays) or removes a
\* transaction; a successful one has stored every returned record, counts
\* them as added with modified = removed = 0 and no cursor, and has written
\* its timestamp to last_synced.
C9_LegacyFrame ==
    /\ [][\A p \in Procs :
            (inv[p].pc \in LegacyPcs /\ inv'[p] # inv[p]) =>
                /\ DOMAIN accounts' = DOMAIN accounts
                /\ \A k \in DOMAIN accounts :
                      accounts'[k] =
                          [accounts[k] EXCEPT !.last_synced = accounts'[k].last_synced]
                /\ \A k \in DOMAIN txns : k \in DOMAIN txns']_vars
    /\ [](\A p \in Procs :
            LegacySucceeded(inv[p]) =>
                /\ inv[p].stats = [Stats0 EXCEPT !.added = Len(inv[p].transactions)]
                /\ \A i \in 1..Len(inv[p].transactions) :
                      LET src == inv[p].transactions[i]
                          k == TxnKey(src.transaction_id)
                      IN  /\ k \in DOMAIN txns
                          /\ txns[k].amount = Abs(src.amount)
                          /\ txns[k].date = src.date
                /\ StoredAccount.last_synced = get_timestamp)

\* C9 witness: a legacy sync that got a record succeeded on an account whose
\* cursor an earlier incremental sync had set.
C9_Witness ==
    \E p \in Procs :
        /\ LegacySucceeded(inv[p])
        /\ Len(inv[p].transactions) > 0
        /\ StoredCursor # None
        /\ StoredAccount.last_synced = get_timestamp

\* C10 (as claimed): the day count a legacy-range sync uses for its start date
\* lies in [1, 730].
C10_WindowClamped ==
    \A p \in Procs :
        inv[p].pc \in LegacyPcs => (1 <= inv[p].days /\ inv[p].days <= MaxDays)

\* C15 (as claimed): in every store state, whatever the interleaving of
\* create, update and contribute requests, each stored goal's progress is its
\* current_amount over its target_amount (0 when the target is not positive).
C15_ProgressIsQuotient ==
    \A k \in DOMAIN goals :
        goals[k].progress = Progress(goals[k].current_amount, goals[k].target_amount)

\* C13: while the plan requests of a user have run one after another, the
\* store holds at most one active plan of the user, and when a plan-creating
\* request has succeeded the active plan is the one it created.
C13_OneActivePlan ==
    serial =>
        /\ Cardinality(ActivePlans(UserId)) <= 1
        /\ \A p \in Procs :
              CreatedPlan(req[p]) =>
                  ActivePlans(UserId) = {Key(req[p].out.pk, req[p].out.sk)}

\* C13 witness: a plan-creating request succeeded that found an active plan,
\* after an earlier request of the user, all one after another.
C13_Witness ==
    /\ serial
    /\ clock >= 2
    /\ \E p \in Procs :
          /\ CreatedPlan(req[p])
          /\ Len(req[p].list) > 0
          /\ Cardinality({k \in DOMAIN plans : k[1] = "USER#" \o UserId}) >= 2

\* The plan of request r was put at or after tick t (generated_at is the
\* clock of the put).
PutSince(r, t) ==
    \E k \in t..(MaxClock + 1) : r.out.generated_at = "T" \o ToString(k)

\* C14: when two plan-creating requests of a user overlap, the later one
\* arriving (and querying the active plans) before the earlier one puts its
\* plan, and both succeed, both their plans are active in the store.
C14_OverlapLeavesTwoActive ==
    \A p, q \in Procs :
        (/\ p # q
         /\ CreatedPlan(req[p]) /\ CreatedPlan(req[q])
         /\ req[p].user_id = req[q].user_id
         /\ req[p].began < req[q].began
         /\ PutSince(req[p], req[q].began)) =>
            /\ Key(req[p].out.pk, req[p].out.sk) \in ActivePlans(req[p].user_id)
            /\ Key(req[q].out.pk, req[q].out.sk) \in ActivePlans(req[q].user_id)

\* C14 witness: two overlapping plan-creating requests of the user have both
\* answered success, each having deactivated the plan it found, and two plans
\* of the user are active.
C14_Witness ==
    \E p, q \in Procs :
        /\ p # q
        /\ CreatedPlan(req[p]) /\ CreatedPlan(req[q])
        /\ req[p].user_id = UserId /\ req[q].user_id = UserId
        /\ Len(req[p].list) > 0 /\ Len(req[q].list) > 0
        /\ Cardinality(ActivePlans(UserId)) = 2

\* The handlers that look an item up by the id in the path, and the message
\* of each one's not_found.
LookupOps == {"get_account", "refresh_account", "delete_account",
              "update_goal", "contribute_to_goal", "delete_goal", "deactivate_plan"}
NotFoundMessage(op) ==
    IF op \in {"get_account", "refresh_account", "delete_account"} THEN "Account not found"
    ELSE IF op = "deactivate_plan" THEN "Plan not found"
    ELSE "Goal not found"

\* C11: a finished sync, get, refresh, unlink, goal update, contribute, goal
\* delete or plan deactivate request whose well-formed id is not in the
\* caller's partition, and whose body passed validation, carries the handler's
\* NotFound response, whether another user holds the id or nobody does.
C11_ForeignIdIsNotFound ==
    \A p \in Procs :
        /\ (/\ req[p].pc = "done"
            /\ req[p].op \in LookupOps
            /\ validate_uuid(req[p].id)
            /\ OwnerOf(req[p].id) \notin {req[p].user_id, None}
            /\ req[p].response.status # 400) =>
               req[p].response = NotFound(NotFoundMessage(req[p].op))
        /\ (/\ inv[p].pc = "done"
            /\ OwnerOf(inv[p].account_id) \notin {UserId, None}
            /\ inv[p].status # 500) =>
               /\ inv[p].status = 404
               /\ inv[p].code = "NOT_FOUND"
               /\ inv[p].message = "Account not found"

\* C11 witness: the first user's goal update named the goal the second user
\* holds, and was answered NotFound.
C11_Witness ==
    \E p \in Procs :
        /\ req[p].pc = "done"
        /\ req[p].op = "update_goal"
        /\ req[p].user_id = UserId
        /\ req[p].id = OtherGoalId
        /\ Key("USER#" \o OtherUser, "GOAL#" \o OtherGoalId) \in DOMAIN goals
        /\ req[p].response = NotFound("Goal not found")

Changed(before, after) ==
    {k \in DOMAIN before \cup DOMAIN after :
        \/ k \notin DOMAIN before
        \/ k \notin DOMAIN after
        \/ before[k] # after[k]}

\* C12: every item a request obtained is of the caller's partition; every
\* account, goal or plan item a step writes or deletes is of the partition of
\* the user whose request takes the step; and every transaction a step writes
\* or deletes is under an account of the caller's partition.
C12_PartitionIsolation ==
    /\ [](\A p \in Procs :
             /\ req[p].held \subseteq {"USER#" \o req[p].user_id}
             /\ inv[p].account # NoItem => inv[p].account.pk = "USER#" \o UserId)
    /\ [][/\ \A k \in Changed(accounts, accounts') \cup Changed(goals, goals')
                       \cup Changed(plans, plans') :
                \E p \in Procs :
                   \/ req'[p].pc # "idle" /\ k[1] = "USER#" \o req'[p].user_id
                   \/ inv'[p].pc # "idle" /\ k[1] = "USER#" \o UserId
          /\ \A k \in Changed(txns, txns') :
                \E p \in Procs :
                   /\ inv'[p].pc # "idle"
                   /\ k[1] = "ACCOUNT#" \o inv'[p].account_id
                   /\ Key("USER#" \o UserId, "ACCOUNT#" \o inv'[p].account_id)
                         \in DOMAIN accounts]_vars

\* C12 witness: the first user asked to unlink the account the second user
\* holds; the request is answered and the account is where it was.
C12_Witness ==
    \E p \in Procs :
        /\ req[p].pc = "done"
        /\ req[p].op = "delete_account"
        /\ req[p].user_id = UserId
        /\ req[p].id = OtherAccountId
        /\ get_by_id(accounts, "USER#" \o OtherUser, "ACCOUNT#" \o OtherAccountId)
              = OtherAccountItem

InBucket(input, key, inflow) ==
    {i \in 1..Len(input.transactions) :
        LET txn == input.transactions[i]
        IN  /\ txn.date # NoDay
            /\ input.start_date <= txn.date /\ txn.date <= input.end_date
            /\ PeriodKey(txn.date, input.granularity) = key
            /\ (txn.amount >= 0) = inflow}

Magnitudes(input) == [i \in 1..Len(input.transactions) |-> Abs(input.transactions[i].amount)]

RECURSIVE SumSeq(_)
SumSeq(s) == IF s = << >> THEN 0 ELSE Head(s) + SumSeq(Tail(s))

Percentages(out) == [i \in 1..Len(out.categories) |-> out.categories[i].percentage]

MonthExpenses(input, categories) ==
    {i \in 1..Len(input.transactions) :
        LET txn == input.transactions[i]
        IN  /\ txn.amount < 0
            /\ MonthStart(input.month) <= txn.date
            /\ txn.date < MonthStart(input.month + 1)
            /\ txn.category_name \in categories}

BudgetOf(input, category_name) ==
    GetOr(GetOr(input.budget, "categories", << >>), category_name, IntNum(0)).v

\* C19 (as claimed): the budget comparison answers with by_category over
\* exactly the budgeted and the actual categories; a category is over budget
\* iff its budget is positive and its spend exceeds it; overall, is_over_budget
\* and percent_used are actual_total > total_budget and actual_total /
\* total_budget when total_budget is positive, and false and 0 when it is 0 or
\* no budget is stored.
C19_BudgetComparison ==
    ana.fn = "get_budget_comparison" =>
        LET input == ana.input
            total_budget == GetOr(input.budget, "total_budget", IntNum(0)).v
            actual_total == SumOver(Magnitudes(input), MonthExpenses(input, Categories))
            actual(c) == SumOver(Magnitudes(input), MonthExpenses(input, {c}))
            names == DOMAIN GetOr(input.budget, "categories", << >>)
                     \cup {input.transactions[i].category_name :
                              i \in MonthExpenses(input, Categories)}
        IN  /\ ana.out.response = Ok
            /\ DOMAIN ana.out.body.by_category = names
            /\ \A c \in names :
                  ana.out.body.by_category[c].is_over_budget
                     = (BudgetOf(input, c) > 0 /\ actual(c) > BudgetOf(input, c))
            /\ ana.out.body.is_over_budget = (total_budget > 0 /\ actual_total > total_budget)
            /\ ana.out.body.percent_used
                  = (IF total_budget > 0 THEN Round4(actual_total, total_budget) ELSE 0)

\* C20 (as claimed): for a goal with a target date and a positive target that
\* is not complete and has days_elapsed > 0, when the target date has passed
\* (days remaining <= 0) the projector gives no projected date, on_track false
\* and daily_rate * 30 a month.
C20_PastTargetNoDate ==
    ana.fn = "get_savings_progress" =>
        LET goal == ana.input.goal
            now == ana.input.now
        IN  (/\ goal.target_date # Nothing
             /\ goal.created_at # Nothing
             /\ goal.target_amount > 0
             /\ goal.target_amount - goal.current_amount > 0
             /\ DaysBetween(now, goal.created_at[1]) > 0
             /\ DaysBetween(goal.target_date[1] * TicksPerDay, now) <= 0) =>
                /\ ~ana.out.raised
                /\ ana.out.date = Nothing
                /\ ana.out.on_track = FALSE
                /\ ana.out.monthly_contribution
                      = Frac(goal.current_amount * DaysPerMonth,
                             DaysBetween(now, goal.created_at[1]))


\* C21 (as claimed): for a goal with a target date, a positive target and a
\* creation time, every branch of the projector that computes a rate, the
\* already-complete one (current >= target) included, returns
\* monthly = daily_rate * 30 with daily_rate = current / days_elapsed.
C21_MonthlyIsThirtyDailyRates ==
    ana.fn = "get_savings_progress" =>
        LET goal == ana.input.goal
            now == ana.input.now
        IN  (/\ goal.target_date # Nothing
             /\ goal.created_at # Nothing
             /\ goal.target_amount > 0
             /\ DaysBetween(now, goal.created_at[1]) > 0) =>
                /\ ~ana.out.raised
                /\ ana.out.monthly_contribution
                      = Frac(goal.current_amount * DaysPerMonth,
                             DaysBetween(now, goal.created_at[1]))


\* C22 (as claimed): for an incomplete goal with a target date, a positive
\* target and a creation time: when days_elapsed <= 0 the projector returns a
\* zero rate and on_track true; when days_elapsed > 0 and the target date is
\* still ahead (days remaining > 0), a zero daily rate gives no projected date
\* and on_track false, and otherwise the projected date is the day of
\* now + (target_amount - current_amount) / daily_rate whole days and
\* on_track = (projected date <= target date).
C22_ProjectedDateAndVerdict ==
    ana.fn = "get_savings_progress" =>
        LET goal == ana.input.goal
            now == ana.input.now
            remaining == goal.target_amount - goal.current_amount
            days_elapsed == DaysBetween(now, goal.created_at[1])
            days_to_target == DaysBetween(goal.target_date[1] * TicksPerDay, now)
            projected_day ==
                (now + ((remaining * days_elapsed) \div goal.current_amount) * TicksPerDay)
                    \div TicksPerDay
        IN  (/\ goal.target_date # Nothing
             /\ goal.created_at # Nothing
             /\ goal.target_amount > 0
             /\ remaining > 0) =>
                /\ ~ana.out.raised
                /\ days_elapsed <= 0 =>
                      /\ ana.out.monthly_contribution = Zero
                      /\ ana.out.on_track = TRUE
                /\ (days_elapsed > 0 /\ days_to_target > 0) =>
                      IF goal.current_amount = 0
                      THEN ana.out.date = Nothing /\ ana.out.on_track = FALSE
                      ELSE /\ ana.out.date = Just(projected_day)
                           /\ ana.out.on_track = (projected_day <= goal.target_date[1])


\* C23: an unlink finds the account and attempts the revocation of its access
\* token in one step, before anything is deleted; when the revocation fails
\* the request goes on to the delete all the same, and the delete, unless the
\* store call itself fails, removes the account record that was still there
\* and answers success.
C23_RevocationIsBestEffort ==
    [][\A p \in Procs :
          LET key == Key("USER#" \o req'[p].user_id, "ACCOUNT#" \o req'[p].id)
          IN  /\ (/\ req[p].pc = "idle"
                  /\ req'[p].op = "delete_account"
                  /\ req'[p].out = "revoke_failed")
                    => /\ req'[p].pc = "account_delete"
                       /\ accounts' = accounts
              /\ (/\ req[p].pc = "account_delete"
                  /\ req'[p].pc = "done"
                  /\ req'[p].response.status # 500)
                    => /\ req'[p].response = Ok
                       /\ key \in DOMAIN accounts
                       /\ key \notin DOMAIN accounts'
                       /\ req[p].out \in {"not_attempted", "revoked", "revoke_failed"}
                       /\ (req[p].out = "not_attempted")
                             = (req[p].item.plaid_access_token = None)]_vars

\* C23 witness: an unlink whose revocation failed answered success and the
\* account record is gone.
C23_Witness ==
    \E p \in Procs :
        /\ req[p].pc = "done"
        /\ req[p].op = "delete_account"
        /\ req[p].out = "revoke_failed"
        /\ req[p].item.plaid_access_token # None
        /\ req[p].response = Ok
        /\ get_account(req[p].user_id, req[p].id) = NoItem

\* C24 (as claimed): a sync request whose days parameter is not an integer,
\* in either sync mode, is answered 400 VALIDATION_ERROR, with no call to the
\* aggregator and the transaction table as the request found it.
C24_MalformedDaysIsClientError ==
    \A p \in Procs :
        (inv[p].pc = "done" /\ inv[p].malformed) =>
            /\ inv[p].status = 400
            /\ inv[p].code = "VALIDATION_ERROR"
            /\ inv[p].calls = 0
            /\ txns = inv[p].pre


\* C25 (as claimed): in a store that only sync requests have written and that
\* holds a transaction, every stored amount is >= 0, the cash flow over the
\* stored transactions has no outflow and total_outflow 0, the spending by
\* category has no category and total 0, and the budget comparison, whatever
\* the budget of the month, reports an actual spend of 0.
C25_SyncedStoreShowsNoSpend ==
    txns # << >> =>
        /\ \A k \in DOMAIN txns : txns[k].amount >= 0
        /\ \A granularity \in Granularities :
              LET body == cash_flow(StoredTransactions, 0, Today, granularity)
              IN  body.outflows = << >> /\ body.total_outflow = 0
        /\ LET body == spending_by_category(StoredTransactions, 0, Today)
           IN  body.categories = << >> /\ body.total_spending = 0
        /\ \A budget \in Budgets, month \in Months :
              LET out == budget_comparison(budget, StoredTransactions, month)
              IN  /\ out.response = Ok
                  /\ out.body.actual = 0
                  /\ \A c \in DOMAIN out.body.by_category :
                        out.body.by_category[c].actual.v = 0


\* C28 (as claimed): when the first two requests on a goal are contributions
\* and both have returned success, in any interleaving, the stored
\* current_amount is the amount the goal had before them plus the two amounts
\* contributed.
C28_NoContributionLost ==
    \A p, q \in Procs :
        (/\ req[p].pc = "done" /\ req[q].pc = "done"
         /\ req[p].op = "contribute_to_goal" /\ req[q].op = "contribute_to_goal"
         /\ req[p].response = Ok /\ req[q].response = Ok
         /\ req[p].id = req[q].id
         /\ req[p].began = 1 /\ req[q].began = 2) =>
            get_goal(req[p].user_id, req[p].id).current_amount
               = req[p].item.current_amount + req[p].body.amount + req[q].body.amount


\* C26 (as claimed): with incremental syncs of one account overlapping, in
\* every state where no invocation is in flight the transactions table is the
\* remote ledger of the linked account as of the stored cursor (so a
\* transaction that an applied page removed is not stored), and no step moves
\* the stored cursor back.
C26_OverlapFollowsLedger ==
    /\ [](Quiet => txns = ExpectedTable(CursorPos(StoredCursor)))
    /\ [][CursorPos(StoredCursor') >= CursorPos(StoredCursor)]_vars


\* C27 (as claimed): once an unlink of the account has answered success and no
\* sync or refresh of the account is in flight, no account item is stored
\* under the user's key for that account id.
C27_UnlinkedStaysUnlinked ==
    \A p \in Procs :
        (/\ req[p].pc = "done"
         /\ req[p].op = "delete_account"
         /\ req[p].response = Ok
         /\ \A q \in Procs :
               /\ inv[q].pc \in {"idle", "done"}
               /\ req[q].pc \in {"idle", "done"}) =>
            Key("USER#" \o req[p].user_id, "ACCOUNT#" \o req[p].id) \notin DOMAIN accounts


\* C29: the step in which an incremental sync fails writes neither the
\* account item nor the transactions table, so what the request put and
\* deleted before stays; and when the request has answered, the account item
\* is the one it read when it started, cursor and last_synced included.
C29_FailedSyncWritesNoAccount ==
    /\ [][\A p \in Procs :
            (/\ inv[p].pc \in SyncPcs
             /\ inv'[p].pc = "done"
             /\ inv'[p].faulted) =>
                /\ accounts' = accounts
                /\ txns' = txns]_vars
    /\ [](\A p \in Procs :
            (inv[p].pc = "done" /\ inv[p].use_sync /\ inv[p].faulted) =>
                /\ inv[p].status = 503
                /\ get_account(UserId, inv[p].account_id) = inv[p].account)

\* C29 witness: a sync failed after it had put a transaction and deleted
\* another; both changes are in the table and the account item is as it was.
C29_Witness ==
    \E p \in Procs :
        /\ inv[p].pc = "done" /\ inv[p].use_sync /\ inv[p].faulted
        /\ inv[p].stats.added + inv[p].stats.modified > 0
        /\ \E k \in DOMAIN txns : k \notin DOMAIN inv[p].pre \/ txns[k] # inv[p].pre[k]
        /\ StoredAccount = inv[p].account
        /\ StoredAccount.last_synced # get_timestamp


\* The positions of the records of a list that carry transaction id t and
\* that the handler applies.
AppliedAt(r, list, t) ==
    {i \in 1..Len(r.resp[list]) :
        /\ r.resp[list][i].transaction_id = t
        /\ (list = "removed" \/ OfLinkedAccount(r.resp[list][i], r.account))}

\* C30: a request applies its response in the order added, modified, removed:
\* no step goes back to an earlier list; after a successful sync a transaction
\* id that is in added and in modified and not in removed is stored with the
\* content of its (last) modified record, and an id that is in added or in
\* modified and also in removed is not stored.
C30_AddedModifiedRemoved ==
    /\ [][\A p \in Procs :
            /\ inv[p].pc = "modified" => inv'[p].pc \in {"modified", "removed", "update", "done"}
            /\ inv[p].pc = "removed" => inv'[p].pc \in {"removed", "update", "done"}]_vars
    /\ [](\A p \in Procs : \A t \in TxnIds :
            SyncSucceeded(inv[p]) =>
                LET r == inv[p]
                    added == AppliedAt(r, "added", t)
                    modified == AppliedAt(r, "modified", t)
                    removed == AppliedAt(r, "removed", t)
                IN  /\ (added # {} /\ modified # {} /\ removed = {}) =>
                          /\ TxnKey(t) \in DOMAIN txns
                          /\ \E i \in modified :
                                /\ \A j \in modified : j <= i
                                /\ txns[TxnKey(t)] =
                                      map_plaid_transaction(r.resp.modified[i], UserId,
                                                            r.account_id, txns)
                    /\ (added \cup modified # {} /\ removed # {}) =>
                          TxnKey(t) \notin DOMAIN txns)

\* C30 witness: a sync succeeded on a response that has one transaction id in
\* all three lists, the added and the modified record differing in what is
\* stored of them, and the transaction is not stored.
C30_Witness ==
    \E p \in Procs : \E t \in TxnIds :
        /\ SyncSucceeded(inv[p])
        /\ \E i \in AppliedAt(inv[p], "added", t), j \in AppliedAt(inv[p], "modified", t) :
              (inv[p].resp.added[i].amount > 0) # (inv[p].resp.modified[j].amount > 0)
        /\ AppliedAt(inv[p], "removed", t) # {}
        /\ TxnKey(t) \notin DOMAIN txns
        /\ inv[p].stats.added = 1 /\ inv[p].stats.modified = 1 /\ inv[p].stats.removed = 1

====
